---- MODULE Spec2Model ----
(***************************************************************************)
(* Model of the noise-sensor firmware (src/ESP32/ESP32.ino): the sampling  *)
(* loop (Arduino loop(), core 1) and the network task sendTask (core 0),   *)
(* which share one FreeRTOS queue of 1-second dBA readings.                *)
(*                                                                         *)
(* Conventions                                                             *)
(*  - float/double quantities are modelled in fixed point over integers:   *)
(*    a conditioned sample is kept in units of 1/NORM_DIV, a sum of        *)
(*    squares in units of 1/NORM_DIV^2, a level in whole dB.               *)
(*  - a uint32_t millisecond value is kept as the integer with the same    *)
(*    32-bit pattern (two's complement), see U32Sub and U32AtLeast.        *)
(*  - every FreeRTOS queue call is one atomic step (the kernel runs it in  *)
(*    a critical section); the code between two queue calls touches only   *)
(*    state private to its task and is folded into the neighbouring step.  *)
(***************************************************************************)
EXTENDS Integers, Sequences, FiniteSets, TLC

VARIABLES
    clock,          \* millis()
    lpc,            \* position of setup()/loop(): setup, halted, read, send1, evict, send2
    now,            \* loop(): uint32_t now
    dBA_1s,         \* loop(): the 1-second reading being pushed
    hpf,            \* OnePoleHPF hpf: [y, x_prev]
    sumsq_1s,       \* double sumsq_1s
    samples_1s,     \* uint32_t samples_1s
    t1_start_ms,    \* uint32_t t1_start_ms
    currentDb,      \* float currentDb
    ringBuf,        \* float ringBuf[SCREEN_WIDTH]
    head,           \* uint8_t head
    lastDisplayMs,  \* unsigned long lastDisplayMs
    rx_buf,         \* int32_t rx_buf[BLOCK_SAMPLES]: the samples of the last block read
    label,          \* the classification label drawHeader last printed
    prevY,          \* drawGraph: int prevY, the graph row of the newest value when it returns
    sendQueue,      \* QueueHandle_t sendQueue: the readings waiting, front first
    spc,            \* position of sendTask: notStarted, wait, post, delay, drain, drainRecv
    dba,            \* sendTask: float dba
    backoffMs,      \* sendTask: unsigned long backoffMs
    sleepMs,        \* the delay handed to vTaskDelay while sendTask sleeps
    reads,          \* history: number of i2s_read calls
    lastRead,       \* history: how the last i2s_read ended: none, block, failure
    refreshes,      \* history: number of updateDisplay calls
    produced,       \* history: number of 1-second readings computed
    lastEnq,        \* history: production number of the last reading enqueued
    lastEvict,      \* history: what the producer's last eviction removed, and from which queue
    windowBlocks,   \* history: sum of squares and sample count of each block since the window opened
    pushLog,        \* history: the values given to pushSample, in order
    senderTook,     \* history: sendTask has received from the queue
    newestAtTake,   \* history: lastEnq when dba was taken for transmission
    lastAttempt,    \* history: production number of the reading last handed to postToBackend
    lastPost,       \* history: the outcome of the last postToBackend call
    failStreak,     \* history: consecutive failed POSTs
    brokenStreak,   \* history: the failStreak that the last successful POST ended (2: two or more)
    drained,        \* history: the drain loop of sendTask has discarded a reading
    nonEmptyAtDrain, \* history: in the drain loop, and the queue held a reading when it began
    noise_readings, \* server.js: the rows of public.noise_readings, in insertion order
    dbNow,          \* server.js: CURRENT_TIMESTAMP / NOW() of the database, in seconds
    res,            \* server.js: the response to the last request, and the queries it ran
    hour,           \* Dashboard.tsx: new Date().getHours(), the local hour of the browser
    isNight,        \* Dashboard.tsx: const [isNight, setIsNight]
    status,         \* Dashboard.tsx: const status = classify(current, isNight), with current
    selectedDeviceId, \* Dashboard.tsx: const [selectedDeviceId, setSelectedDeviceId]
    live,           \* Dashboard.tsx: const [live, setLive], each point with the device asked
    liveStatus,     \* Dashboard.tsx: const [liveStatus, setLiveStatus], its kind
    liveFetches,    \* Dashboard.tsx: the calls of fetchLive that await their response
    liveLog,        \* history: the points appended to live since it was last emptied
    liveEffectFor,  \* Dashboard.tsx: the selectedDeviceId the live effect last ran with
    dashPreset,     \* Dashboard.tsx: const [preset, setPreset]
    selectedDate,   \* Dashboard.tsx: const [selectedDate, setSelectedDate]
    history,        \* Dashboard.tsx: const [history, setHistory], with the selection asked
    historyFetches, \* Dashboard.tsx: the calls of fetchHistory that await their response
    historyEffectFor \* Dashboard.tsx: the preset, date and device the history effect last ran with

loopVars   == <<lpc, now, dBA_1s, hpf, sumsq_1s, samples_1s, t1_start_ms, currentDb,
                ringBuf, head, lastDisplayMs, rx_buf, label, prevY, prevY>>
senderVars == <<spc, dba, backoffMs, sleepMs>>
loopHist   == <<reads, lastRead, refreshes, produced, lastEnq, lastEvict, windowBlocks, pushLog>>
senderHist == <<senderTook, newestAtTake, lastAttempt, lastPost, failStreak, brokenStreak,
                drained, nonEmptyAtDrain>>
firmwareVars == <<clock, loopVars, senderVars, sendQueue, loopHist, senderHist>>
backendVars == <<noise_readings, dbNow, res>>
nightVars == <<hour, isNight, status>>
liveVars == <<selectedDeviceId, live, liveStatus, liveFetches, liveLog, liveEffectFor>>
historyVars == <<dashPreset, selectedDate, history, historyFetches, historyEffectFor>>
dashboardVars == <<nightVars, liveVars, historyVars>>
webVars == <<backendVars, dashboardVars>>
vars == <<firmwareVars, webVars>>

(***************************************************************************)
(* Bounds of the model                                                     *)
(***************************************************************************)
\* i2s_read calls explored
MaxReads == 7

\* how long one loop iteration may take (ms): a DMA block, or a stalled second
ReadTimes == {64, 1000}

\* time setup() takes before initializeRingBuffer reads millis()
SetupTimes == {200}

(***************************************************************************)
(* Program constants                                                       *)
(***************************************************************************)
SCREEN_WIDTH    == 128
GRAPH_W         == 128
SAMPLE_EVERY_MS == 120
DB_MIN          == 20
DB_MAX          == 80
GRAPH_Y         == 22
GRAPH_H         == 42
NORM_DIV        == 131072
CAL_OFFSET_DBA  == 96
QUEUE_LEN       == 5
BACKOFF_BASE    == 1000
BACKOFF_MAX     == 30000
WINDOW_MS       == 1000
INITIAL_DB      == 50

\* portMAX_DELAY: wait for ever
portMAX_DELAY == -1

ESP_OK   == "ESP_OK"
ESP_FAIL == "ESP_FAIL"

NoReading == [seq |-> 0, db |-> 0]
NoEvict   == [seq |-> 0, len |-> 0, front |-> 0]
NoPost    == [wifi |-> FALSE, code |-> 0, requested |-> FALSE, ok |-> FALSE, seq |-> 0]

(***************************************************************************)
(* uint32_t arithmetic on millis() values.  A value is kept as the integer *)
(* with the same 32-bit pattern, so 2^32-1 is -1 and the wrap of millis()  *)
(* from 2^32-1 to 0 is the step from -1 to 0.                              *)
(***************************************************************************)
INT32_MAX == 2147483647

\* a - b modulo 2^32
U32Sub(a, b) ==
    LET d == a - b
    IN  IF d > INT32_MAX THEN (d - INT32_MAX) - INT32_MAX - 2
        ELSE IF d < -INT32_MAX - 1 THEN (d + INT32_MAX) + INT32_MAX + 2
        ELSE d

\* a + b modulo 2^32
U32Add(a, b) == U32Sub(a, -b)

\* unsigned comparison e >= k, for 0 <= k <= INT32_MAX
U32AtLeast(e, k) == e < 0 \/ e >= k

Min(a, b) == IF a < b THEN a ELSE b
Max(a, b) == IF a > b THEN a ELSE b

(***************************************************************************)
(* Signal path: one audio block                                            *)
(***************************************************************************)
\* rx_buf[i] >> 14
Shift14(x) == x \div 16384

RECURSIVE SumShifted(_)
SumShifted(buf) == IF buf = <<>> THEN 0 ELSE Shift14(Head(buf)) + SumShifted(Tail(buf))

\* (a read that did not look at the driver's return code)
readI2SAudioDataUnchecked(err, buf) == Len(buf) > 0

\* (a read that accepted a block of no samples)
readI2SAudioDataAnyCount(err, buf) == err = ESP_OK

\* readI2SAudioData: the block was read and holds at least one sample
readI2SAudioData(err, buf) == err = ESP_OK /\ Len(buf) > 0

\* calculateMean; no sample gives 0/0 = NaN
calculateMean(buf) == IF Len(buf) = 0 THEN 0 ELSE SumShifted(buf) \div Len(buf)

\* OnePoleHPF::process, a = 0.995
HpfProcess(h, x) ==
    LET y == (995 * (h.y + x - h.x_prev)) \div 1000
    IN  [y |-> y, x_prev |-> x]

\* calculateSumOfSquares: the block's sum of squares and the filter state it leaves
RECURSIVE calculateSumOfSquares(_, _, _, _)
calculateSumOfSquares(buf, mean, h, acc) ==
    IF buf = <<>> THEN [sumsq |-> acc, hpf |-> h]
    ELSE LET s  == Shift14(Head(buf)) - mean
             h2 == HpfProcess(h, s)
         IN  calculateSumOfSquares(Tail(buf), mean, h2, acc + h2.y * h2.y)

\* (an accumulator that kept only the last block)
accumulateOverwrites(sumsq, n, sumsq_block, num_samples) ==
    [sumsq |-> sumsq_block, n |-> num_samples]

\* accumulateAudioData: sumsq_1s += sumsq_block; samples_1s += num_samples
accumulateAudioData(sumsq, n, sumsq_block, num_samples) ==
    [sumsq |-> sumsq + sumsq_block, n |-> n + num_samples]

\* (a filter that started every block from rest)
FilterStateReset(h) == [y |-> 0, x_prev |-> 0]

\* the filter state a block starts from: hpf is a global that nothing re-initialises
FilterStateKept(h) == h

\* sumsq / (double)n, the argument of sqrt; n = 0 gives NaN, which fmaxf(rms, EPS_F)
\* in convertToDecibels replaces by EPS_F, as it does a mean square of 0
MeanSquare(sumsq, n) == IF n = 0 THEN 0 ELSE sumsq \div n

RECURSIVE ILog2(_)
ILog2(v) == IF v <= 1 THEN 0 ELSE 1 + ILog2(v \div 2)

\* 20*log10(fmaxf(rms, EPS_F)) + CAL_OFFSET_DBA, from the mean square ms = rms^2
\* in units of 1/NORM_DIV^2 = 2^-34:  20*log10(rms) = 10*log10(ms) ~ 3*log2(ms);
\* a mean square of 0 is floored by EPS_F = 1e-12, that is -240 dBFS
convertToDecibels(ms) ==
    IF ms < 1 THEN CAL_OFFSET_DBA - 240
    ELSE 3 * (ILog2(ms) - 34) + CAL_OFFSET_DBA

(***************************************************************************)
(* Display                                                                 *)
(***************************************************************************)
\* (a push that moved the cursor before writing)
pushSampleAfterMove(rb, hd, dB) ==
    [ringBuf |-> [rb EXCEPT ![(hd + 1) % GRAPH_W] = dB], head |-> (hd + 1) % GRAPH_W]

\* pushSample
pushSample(rb, hd, dB) ==
    [ringBuf |-> [rb EXCEPT ![hd] = dB], head |-> (hd + 1) % GRAPH_W]

\* processDisplayUpdate's test
DisplayDue(t, last) == U32AtLeast(U32Sub(t, last), SAMPLE_EVERY_MS)

\* (a header whose tests include the threshold itself)
drawHeaderLabelInclusive(db) ==
    IF db >= 55 + 5 THEN "HIGH" ELSE IF db >= 55 - 5 THEN "CAUTION" ELSE "OK"

\* drawHeader: the label printed for currentDb, limit = 55
drawHeaderLabel(db) ==
    IF db > 55 + 5 THEN "HIGH" ELSE IF db > 55 - 5 THEN "CAUTION" ELSE "OK"

\* drawGraph: the ring buffer entries in the order they are drawn, left to right
drawGraphOrder(rb, hd) == [i \in 1..GRAPH_W |-> rb[(hd + i - 1) % GRAPH_W]]

\* clampf
clampf(v, lo, hi) == IF v < lo THEN lo ELSE IF v > hi THEN hi ELSE v

\* (a row computed from the level as it is)
mapDbToYUnclamped(dB) ==
    GRAPH_Y + GRAPH_H - 1 - (((dB - DB_MIN) * (GRAPH_H - 1)) \div (DB_MAX - DB_MIN))

\* mapDbToY: t = (clampf(dB) - DB_MIN) / (DB_MAX - DB_MIN), y = GRAPH_Y + GRAPH_H - 1
\* - (int)(t * (GRAPH_H - 1)).  For a whole level t * 41 is a whole number only at
\* 20 and 80 dB, where the float arithmetic is exact; elsewhere it is at least
\* 1/60 away from one, far more than the rounding of floats: the cut (int) makes
\* is that of the integer division.
mapDbToY(dB) ==
    LET c == clampf(dB, DB_MIN, DB_MAX)
    IN  GRAPH_Y + GRAPH_H - 1 - (((c - DB_MIN) * (GRAPH_H - 1)) \div (DB_MAX - DB_MIN))

\* drawGraph: prevY after its loop, the row of the entry drawn last (i = GRAPH_W - 1)
drawGraphPrevY(rb, hd) == mapDbToY(rb[(hd + GRAPH_W - 1) % GRAPH_W])

\* (a display update that pushed the level twice)
updateDisplayTwice(rb, hd, db) ==
    LET p == pushSample(rb, hd, db)
        q == pushSample(p.ringBuf, p.head, db)
    IN  [ringBuf |-> q.ringBuf, head |-> q.head, label |-> drawHeaderLabel(db),
         prevY |-> drawGraphPrevY(q.ringBuf, q.head)]

\* updateDisplay: pushSample(currentDb), drawHeader, drawGraph
updateDisplay(rb, hd, db) ==
    LET p == pushSample(rb, hd, db)
    IN  [ringBuf |-> p.ringBuf, head |-> p.head, label |-> drawHeaderLabel(db),
         prevY |-> drawGraphPrevY(p.ringBuf, p.head)]

\* (a display update without the cadence test)
processDisplayUpdateAlways(t, db) ==
    LET u == updateDisplay(ringBuf, head, db)
    IN  [ringBuf |-> u.ringBuf, head |-> u.head, label |-> u.label, prevY |-> u.prevY,
         lastDisplayMs |-> t, n |-> 1]

\* processDisplayUpdate(now), with updateDisplay: the display state it leaves
processDisplayUpdate(t, db) ==
    IF DisplayDue(t, lastDisplayMs)
    THEN LET u == updateDisplay(ringBuf, head, db)
         IN  [ringBuf |-> u.ringBuf, head |-> u.head, label |-> u.label, prevY |-> u.prevY,
              lastDisplayMs |-> t, n |-> 1]
    ELSE [ringBuf |-> ringBuf, head |-> head, label |-> label, prevY |-> prevY,
          lastDisplayMs |-> lastDisplayMs, n |-> 0]

(***************************************************************************)
(* FreeRTOS queue calls                                                    *)
(***************************************************************************)
\* xQueueSend(q, item, ticks) returns at once when there is room or ticks is 0
QueueSendReturns(q, ticks) == Len(q) < QUEUE_LEN \/ ticks # portMAX_DELAY

\* xQueueReceive(q, &item, ticks) returns at once when an item waits or ticks is 0
QueueReceiveReturns(q, ticks) == Len(q) > 0 \/ ticks # portMAX_DELAY

\* (a queue that put new items in front of the others)
xQueueSendToFront(q, item) ==
    IF Len(q) < QUEUE_LEN THEN [ok |-> TRUE, q |-> <<item>> \o q]
    ELSE [ok |-> FALSE, q |-> q]

\* xQueueSend: pdTRUE and the item behind the others, or errQUEUE_FULL
xQueueSend(q, item) ==
    IF Len(q) < QUEUE_LEN THEN [ok |-> TRUE, q |-> Append(q, item)]
    ELSE [ok |-> FALSE, q |-> q]

\* (a queue that handed out its newest item)
xQueueReceiveFromBack(q, old) ==
    IF Len(q) > 0 THEN [ok |-> TRUE, item |-> q[Len(q)], q |-> SubSeq(q, 1, Len(q) - 1)]
    ELSE [ok |-> FALSE, item |-> old, q |-> q]

\* (a receive that left the item in the queue)
xQueuePeek(q, old) ==
    IF Len(q) > 0 THEN [ok |-> TRUE, item |-> Head(q), q |-> q]
    ELSE [ok |-> FALSE, item |-> old, q |-> q]

\* xQueueReceive: pdTRUE and the front item, or pdFALSE and the variable untouched
xQueueReceive(q, old) ==
    IF Len(q) > 0 THEN [ok |-> TRUE, item |-> Head(q), q |-> Tail(q)]
    ELSE [ok |-> FALSE, item |-> old, q |-> q]

\* uxQueueMessagesWaiting
uxQueueMessagesWaiting(q) == Len(q)

(***************************************************************************)
(* Inputs                                                                  *)
(***************************************************************************)
Raw(v) == v * 16384

\* a block of a steady tone of amplitude 0.01 full scale (1311/131072)
ToneBlock == <<Raw(1311), Raw(-1311)>>

\* what i2s_read may deliver: a block, nothing, or an error that leaves rx_buf as it was
ReadOutcomes ==
    { [err |-> ESP_OK, buf |-> ToneBlock],
      [err |-> ESP_OK, buf |-> <<>>],
      [err |-> ESP_FAIL, buf |-> ToneBlock] }

\* the microphone delivered no block: a driver error, or a read of zero samples
DriverFailure(r) == r.err # ESP_OK \/ Len(r.buf) = 0

\* what WiFi.status() and http.POST may return: a negative code is a transport error
PostOutcomes == { [wifi |-> TRUE, code |-> 200], [wifi |-> TRUE, code |-> -1] }

(***************************************************************************)
(* Initial state: the globals as the program image initialises them        *)
(***************************************************************************)
\* no request answered yet
NoResponse == [route |-> "none", req |-> <<>>, status |-> 0, body |-> <<>>, queries |-> <<>>]

\* the dashboard component before it is mounted
NotMounted == -1
NoStatus == [dba |-> 0, night |-> FALSE, label |-> "none"]

\* useState<HistoryPoint[]>([]): no rows, asked for by no selection
NoSelection == [device_id |-> "", preset |-> "", date |-> ""]
NoHistory == [rows |-> <<>>, of |-> NoSelection]

Init ==
    /\ clock = 0
    /\ lpc = "setup"
    /\ now = 0
    /\ dBA_1s = NoReading
    /\ hpf = [y |-> 0, x_prev |-> 0]
    /\ sumsq_1s = 0
    /\ samples_1s = 0
    /\ t1_start_ms = 0
    /\ currentDb = INITIAL_DB
    /\ ringBuf = [i \in 0..(SCREEN_WIDTH - 1) |-> 0]
    /\ head = 0
    /\ lastDisplayMs = 0
    /\ rx_buf = <<>>
    /\ label = "none"
    /\ prevY = 0
    /\ sendQueue = <<>>
    /\ spc = "notStarted"
    /\ dba = NoReading
    /\ backoffMs = BACKOFF_BASE
    /\ sleepMs = 0
    /\ reads = 0
    /\ lastRead = "none"
    /\ refreshes = 0
    /\ produced = 0
    /\ lastEnq = 0
    /\ lastEvict = NoEvict
    /\ senderTook = FALSE
    /\ newestAtTake = 0
    /\ lastAttempt = 0
    /\ lastPost = NoPost
    /\ failStreak = 0
    /\ brokenStreak = 0
    /\ windowBlocks = <<>>
    /\ pushLog = <<>>
    /\ drained = FALSE
    /\ nonEmptyAtDrain = FALSE
    /\ noise_readings = <<>>
    /\ dbNow = 0
    /\ res = NoResponse
    /\ hour = NotMounted
    /\ isNight = FALSE
    /\ status = NoStatus
    /\ selectedDeviceId = ""
    /\ live = <<>>
    /\ liveStatus = "idle"
    /\ liveFetches = <<>>
    /\ liveLog = <<>>
    /\ liveEffectFor = ""
    /\ dashPreset = "60m"
    /\ selectedDate = "1970-01-01"
    /\ history = NoHistory
    /\ historyFetches = <<>>
    /\ historyEffectFor = [device_id |-> "", preset |-> "60m", date |-> "1970-01-01"]

(***************************************************************************)
(* setup()                                                                 *)
(***************************************************************************)
\* (a setup that created sendTask before the display was initialised)
TaskStartedAnyway(displayOk) == TRUE

\* xTaskCreatePinnedToCore is reached only when initializeOLEDDisplay returns
TaskStarted(displayOk) == displayOk

\* setup(): the queue is created, the display initialised (a failure spins for ever in
\* initializeOLEDDisplay), the ring buffer filled, the window opened, sendTask started
Setup(displayOk, dt) ==
    /\ lpc = "setup"
    /\ clock' = U32Add(clock, dt)
    /\ IF displayOk
       THEN /\ ringBuf' = [i \in 0..(GRAPH_W - 1) |-> INITIAL_DB]
            /\ t1_start_ms' = clock'
            /\ lpc' = "read"
       ELSE /\ lpc' = "halted"
            /\ UNCHANGED <<ringBuf, t1_start_ms>>
    /\ spc' = IF TaskStarted(displayOk) THEN "wait" ELSE spc
    /\ UNCHANGED <<now, dBA_1s, hpf, sumsq_1s, samples_1s, currentDb, head, lastDisplayMs,
                   rx_buf, label, prevY, sendQueue, dba, backoffMs, sleepMs, loopHist, senderHist>>
    /\ UNCHANGED webVars

(***************************************************************************)
(* loop()                                                                  *)
(***************************************************************************)
\* (a producer that waited for room)
LoopQueueTicksForever == portMAX_DELAY

\* the ticks loop() is prepared to wait in its queue calls: none
LoopQueueTicks == 0

\* unsigned comparison a >= b of two uint32_t values
U32Ge(a, b) == IF (a < 0) = (b < 0) THEN a >= b ELSE a < 0

\* (a window test against a deadline: now >= t1_start_ms + 1000)
WindowElapsedByDeadline(t, start) == U32Ge(t, U32Add(start, WINDOW_MS))

\* (a window test that needed more than a full second)
WindowElapsedLate(t, start) == U32AtLeast(U32Sub(t, start), WINDOW_MS + 1)

\* now - t1_start_ms >= 1000
WindowElapsed(t, start) == U32AtLeast(U32Sub(t, start), WINDOW_MS)

\* the tail of loop(): the window is closed and reopened, then processDisplayUpdate(now)
CloseWindow ==
    LET d == processDisplayUpdate(now, currentDb)
    IN  /\ sumsq_1s' = 0
        /\ samples_1s' = 0
        /\ t1_start_ms' = now
        /\ windowBlocks' = <<>>
        /\ ringBuf' = d.ringBuf
        /\ head' = d.head
        /\ label' = d.label
        /\ prevY' = d.prevY
        /\ lastDisplayMs' = d.lastDisplayMs
        /\ refreshes' = refreshes + d.n
        /\ pushLog' = IF d.n = 1 THEN Append(pushLog, currentDb) ELSE pushLog
        /\ dBA_1s' = NoReading
        /\ lpc' = "read"

\* loop() from i2s_read to the first queue call, or to its end when no window elapsed
LoopRead(r, dt) ==
    /\ lpc = "read"
    /\ reads < MaxReads
    /\ reads' = reads + 1
    /\ clock' = U32Add(clock, dt)
    /\ lastRead' = IF DriverFailure(r) THEN "failure" ELSE "block"
    /\ IF ~readI2SAudioData(r.err, r.buf)
       THEN UNCHANGED <<loopVars, produced, refreshes, windowBlocks, pushLog>>
       ELSE LET mean  == calculateMean(r.buf)
                blk   == calculateSumOfSquares(r.buf, mean, FilterStateKept(hpf), 0)
                db    == convertToDecibels(MeanSquare(blk.sumsq, Len(r.buf)))
                acc   == accumulateAudioData(sumsq_1s, samples_1s, blk.sumsq, Len(r.buf))
                t     == clock'
            IN  /\ rx_buf' = r.buf
                /\ hpf' = blk.hpf
                /\ currentDb' = db
                /\ sumsq_1s' = acc.sumsq
                /\ samples_1s' = acc.n
                /\ windowBlocks' = Append(windowBlocks, [s |-> blk.sumsq, n |-> Len(r.buf)])
                /\ now' = t
                /\ IF WindowElapsed(t, t1_start_ms)
                   THEN /\ dBA_1s' = [seq |-> produced + 1,
                                      db |-> convertToDecibels(MeanSquare(acc.sumsq, acc.n))]
                        /\ produced' = produced + 1
                        /\ lpc' = "send1"
                        /\ UNCHANGED <<t1_start_ms, ringBuf, head, label, prevY, lastDisplayMs,
                                       refreshes, pushLog>>
                   ELSE LET d == processDisplayUpdate(t, db)
                        IN  /\ ringBuf' = d.ringBuf
                            /\ head' = d.head
                            /\ label' = d.label
                            /\ prevY' = d.prevY
                            /\ lastDisplayMs' = d.lastDisplayMs
                            /\ refreshes' = refreshes + d.n
                            /\ pushLog' = IF d.n = 1 THEN Append(pushLog, db) ELSE pushLog
                            /\ UNCHANGED <<dBA_1s, produced, t1_start_ms, lpc>>
    /\ UNCHANGED <<senderVars, sendQueue, lastEnq, lastEvict, senderHist>>
    /\ UNCHANGED webVars

\* xQueueSend(sendQueue, &dBA_1s, 0), the first attempt
LoopSend1 ==
    /\ lpc = "send1"
    /\ QueueSendReturns(sendQueue, LoopQueueTicks)
    /\ LET s == xQueueSend(sendQueue, dBA_1s)
       IN  /\ sendQueue' = s.q
           /\ IF s.ok
              THEN /\ lastEnq' = dBA_1s.seq
                   /\ CloseWindow
                   /\ UNCHANGED <<now, hpf, currentDb, rx_buf>>
              ELSE /\ lpc' = "evict"
                   /\ UNCHANGED <<now, dBA_1s, hpf, sumsq_1s, samples_1s, t1_start_ms,
                                  currentDb, ringBuf, head, lastDisplayMs, rx_buf, label, prevY,
                                  refreshes, lastEnq, windowBlocks, pushLog>>
    /\ UNCHANGED <<clock, senderVars, reads, lastRead, produced, lastEvict, senderHist>>
    /\ UNCHANGED webVars

\* xQueueReceive(sendQueue, &dummy, 0): the eviction
LoopEvict ==
    /\ lpc = "evict"
    /\ QueueReceiveReturns(sendQueue, LoopQueueTicks)
    /\ LET e == xQueueReceive(sendQueue, NoReading)
       IN  /\ sendQueue' = e.q
           /\ lastEvict' = IF e.ok
                           THEN [seq |-> e.item.seq, len |-> Len(sendQueue),
                                 front |-> Head(sendQueue).seq]
                           ELSE lastEvict
    /\ lpc' = "send2"
    /\ UNCHANGED <<clock, now, dBA_1s, hpf, sumsq_1s, samples_1s, t1_start_ms, currentDb,
                   ringBuf, head, lastDisplayMs, rx_buf, label, prevY, senderVars, reads, lastRead,
                   refreshes, produced, lastEnq, windowBlocks, pushLog, senderHist>>
    /\ UNCHANGED webVars

\* xQueueSend(sendQueue, &dBA_1s, 0), the second attempt; its result is not looked at
LoopSend2 ==
    /\ lpc = "send2"
    /\ QueueSendReturns(sendQueue, LoopQueueTicks)
    /\ LET s == xQueueSend(sendQueue, dBA_1s)
       IN  /\ sendQueue' = s.q
           /\ lastEnq' = IF s.ok THEN dBA_1s.seq ELSE lastEnq
    /\ CloseWindow
    /\ UNCHANGED <<clock, now, hpf, currentDb, rx_buf, senderVars, reads, lastRead, produced,
                   lastEvict, senderHist>>
    /\ UNCHANGED webVars

Loop ==
    \/ \E ok \in BOOLEAN, dt \in SetupTimes : Setup(ok, dt)
    \/ \E r \in ReadOutcomes, dt \in ReadTimes : LoopRead(r, dt)
    \/ LoopSend1
    \/ LoopEvict
    \/ LoopSend2

(***************************************************************************)
(* sendTask                                                                *)
(***************************************************************************)
\* (a sender that posted without looking at the Wi-Fi status)
httpRequestedAlways(wifi) == TRUE

\* postToBackend reaches http.POST only when WiFi.status() is WL_CONNECTED
httpRequested(wifi) == wifi

\* (a sender that took only a 2xx response for a delivery)
postToBackendOnly2xx(wifi, code) == wifi /\ code >= 200 /\ code < 300

\* postToBackend's result: no request without Wi-Fi; any positive code counts as sent
postToBackend(wifi, code) == wifi /\ code > 0

\* (a doubling without the cap)
NextBackoffUncapped(b) == b * 2

\* backoffMs = min(backoffMs * 2, BACKOFF_MAX)
NextBackoff(b) == Min(b * 2, BACKOFF_MAX)

\* (a success that halved the delay)
BackoffHalved(b) == b \div 2

\* (a success that left the delay as it was)
BackoffKept(b) == b

\* backoffMs = 1000 after a POST that succeeded
BackoffAfterSuccess(b) == BACKOFF_BASE

\* (a backoff sleep that began again when it ended)
SenderSleepsOn == "delay"

\* (a sender that posted the same reading again after its sleep)
SenderRetries == "post"

\* where sendTask goes on after its backoff sleep: on to the backlog drain
SenderAfterDelay == "drain"

\* (a drain loop that emptied the queue)
DrainAgainToEmpty(waiting) == waiting > 0

\* while (uxQueueMessagesWaiting(sendQueue) > 1): the drain loop goes round again
DrainAgain(waiting) == waiting > 1

\* (a sender whose dba was the display's currentDb)
SenderWritesLevel ==
    /\ currentDb' = dba.db
    /\ UNCHANGED <<clock, lpc, now, dBA_1s, hpf, sumsq_1s, samples_1s, t1_start_ms,
                   ringBuf, head, lastDisplayMs, rx_buf, label, prevY, loopHist>>

\* sendTask and postToBackend use the queue and their own locals only
SenderLeavesLoopState == UNCHANGED <<clock, loopVars, loopHist>>

\* xQueueReceive(sendQueue, &dba, portMAX_DELAY) == pdTRUE
SenderReceive ==
    /\ spc = "wait"
    /\ QueueReceiveReturns(sendQueue, portMAX_DELAY)
    /\ LET e == xQueueReceive(sendQueue, dba)
       IN  /\ sendQueue' = e.q
           /\ dba' = e.item
    /\ spc' = "post"
    /\ senderTook' = TRUE
    /\ newestAtTake' = lastEnq
    /\ SenderLeavesLoopState
    /\ UNCHANGED <<backoffMs, sleepMs, lastAttempt, lastPost, failStreak, brokenStreak,
                   drained, nonEmptyAtDrain>>
    /\ UNCHANGED webVars

\* postToBackend(dba) returns; on failure vTaskDelay(backoffMs) begins
SenderPost(o) ==
    /\ spc = "post"
    /\ lastAttempt' = dba.seq
    /\ lastPost' = [wifi |-> o.wifi, code |-> o.code, requested |-> httpRequested(o.wifi),
                    ok |-> postToBackend(o.wifi, o.code), seq |-> dba.seq]
    /\ IF postToBackend(o.wifi, o.code)
       THEN /\ backoffMs' = BackoffAfterSuccess(backoffMs)
            /\ spc' = "drain"
            /\ nonEmptyAtDrain' = (sendQueue # <<>>)
            /\ failStreak' = 0
            /\ brokenStreak' = Min(failStreak, 2)
            /\ UNCHANGED sleepMs
       ELSE /\ sleepMs' = backoffMs
            /\ spc' = "delay"
            /\ failStreak' = failStreak + 1
            /\ UNCHANGED <<backoffMs, brokenStreak, nonEmptyAtDrain>>
    /\ SenderLeavesLoopState
    /\ UNCHANGED <<sendQueue, dba, senderTook, newestAtTake, drained>>
    /\ UNCHANGED webVars

\* vTaskDelay returns; backoffMs is doubled up to BACKOFF_MAX
SenderWake ==
    /\ spc = "delay"
    /\ backoffMs' = NextBackoff(backoffMs)
    /\ sleepMs' = 0
    /\ spc' = SenderAfterDelay
    /\ nonEmptyAtDrain' = (sendQueue # <<>> /\ spc' = "drain")
    /\ SenderLeavesLoopState
    /\ UNCHANGED <<sendQueue, dba, senderTook, newestAtTake, lastAttempt, lastPost,
                   failStreak, brokenStreak, drained>>
    /\ UNCHANGED webVars

\* while (uxQueueMessagesWaiting(sendQueue) > 1)
SenderDrainCheck ==
    /\ spc = "drain"
    /\ spc' = IF DrainAgain(uxQueueMessagesWaiting(sendQueue)) THEN "drainRecv" ELSE "wait"
    /\ nonEmptyAtDrain' = (nonEmptyAtDrain /\ spc' # "wait")
    /\ SenderLeavesLoopState
    /\ UNCHANGED <<sendQueue, dba, backoffMs, sleepMs, senderTook, newestAtTake, lastAttempt,
                   lastPost, failStreak, brokenStreak, drained>>
    /\ UNCHANGED webVars

\* xQueueReceive(sendQueue, &dba, 0) of the drain loop
SenderDrainRecv ==
    /\ spc = "drainRecv"
    /\ QueueReceiveReturns(sendQueue, 0)
    /\ LET e == xQueueReceive(sendQueue, dba)
       IN  /\ sendQueue' = e.q
           /\ dba' = e.item
           /\ senderTook' = (senderTook \/ e.ok)
           /\ drained' = (drained \/ e.ok)
    /\ spc' = "drain"
    /\ SenderLeavesLoopState
    /\ UNCHANGED <<backoffMs, sleepMs, newestAtTake, lastAttempt, lastPost, failStreak,
                   brokenStreak, nonEmptyAtDrain>>
    /\ UNCHANGED webVars

Sender ==
    \/ SenderReceive
    \/ \E o \in PostOutcomes : SenderPost(o)
    \/ SenderWake
    \/ SenderDrainCheck
    \/ SenderDrainRecv

Next == Loop \/ Sender

Spec == Init /\ [][Next]_vars

(***************************************************************************)
(* The backend is unreachable: every POST fails.  loop() runs on its own   *)
(* core and each of its queue calls returns, so its steps are taken;       *)
(* nothing is assumed of sendTask, which may sleep or hang in a POST.      *)
(***************************************************************************)
FailingPosts == { [wifi |-> TRUE, code |-> -1], [wifi |-> FALSE, code |-> 0] }

SenderOffline ==
    \/ SenderReceive
    \/ \E o \in FailingPosts : SenderPost(o)
    \/ SenderWake
    \/ SenderDrainCheck
    \/ SenderDrainRecv

NextOffline == Loop \/ SenderOffline

OfflineSpec ==
    /\ Init
    /\ [][NextOffline]_vars
    /\ WF_vars(\E dt \in SetupTimes : Setup(TRUE, dt))
    /\ WF_vars(\E r \in ReadOutcomes, dt \in ReadTimes : LoopRead(r, dt))
    /\ WF_vars(LoopSend1)
    /\ WF_vars(LoopEvict)
    /\ WF_vars(LoopSend2)

(***************************************************************************)
(* The backend reachable and every POST successful.  Both contexts keep    *)
(* running (each has a core of its own) and every POST returns, so each of *)
(* their steps is taken once it stays possible.  A read of the microphone  *)
(* takes tens of milliseconds and the queue calls of sendTask take none to *)
(* speak of, so a read returns only when sendTask is inside postToBackend  *)
(* or blocked on the empty queue; how many reads return while one POST is  *)
(* under way (connection set-up, then up to 800 ms for the response) is    *)
(* left open.                                                              *)
(***************************************************************************)
SucceedingPosts == { [wifi |-> TRUE, code |-> 200] }

SenderOnline ==
    \/ SenderReceive
    \/ \E o \in SucceedingPosts : SenderPost(o)
    \/ SenderDrainCheck
    \/ SenderDrainRecv

\* what i2s_read delivers here: a block, or nothing
OnlineReads == { [err |-> ESP_OK, buf |-> ToneBlock], [err |-> ESP_OK, buf |-> <<>>] }

\* a read returns when the next second is over
OnlineTimes == {WINDOW_MS}

\* sendTask is where it can stay for long: in http.POST, or in xQueueReceive with
\* nothing to receive
SenderSettled == spc = "post" \/ (spc = "wait" /\ sendQueue = <<>>)

LoopReadOnline ==
    \E r \in OnlineReads, dt \in OnlineTimes :
        /\ SenderSettled
        /\ LoopRead(r, dt)

LoopOnline ==
    \/ \E dt \in SetupTimes : Setup(TRUE, dt)
    \/ LoopReadOnline
    \/ LoopSend1
    \/ LoopEvict
    \/ LoopSend2

NextOnline == LoopOnline \/ SenderOnline

OnlineSpec ==
    /\ Init
    /\ [][NextOnline]_vars
    /\ WF_vars(\E dt \in SetupTimes : Setup(TRUE, dt))
    /\ WF_vars(LoopReadOnline)
    /\ WF_vars(LoopSend1)
    /\ WF_vars(LoopEvict)
    /\ WF_vars(LoopSend2)
    /\ WF_vars(SenderReceive)
    /\ WF_vars(\E o \in SucceedingPosts : SenderPost(o))
    /\ WF_vars(SenderDrainCheck)
    /\ WF_vars(SenderDrainRecv)

(***************************************************************************)
(* The backend answering in every way it can: with a 2xx, 4xx or 5xx       *)
(* status, with a transport error of HTTPClient (a negative code), or not  *)
(* asked at all because WiFi is down.                                      *)
(***************************************************************************)
NetOutcomes ==
    { [wifi |-> TRUE, code |-> c] : c \in {200, 404, 500, -1, -11} }
        \cup { [wifi |-> FALSE, code |-> 0] }

LoopNet ==
    \/ \E dt \in SetupTimes : Setup(TRUE, dt)
    \/ \E r \in OnlineReads, dt \in OnlineTimes : LoopRead(r, dt)
    \/ LoopSend1
    \/ LoopEvict
    \/ LoopSend2

SenderNet ==
    \/ SenderReceive
    \/ \E o \in NetOutcomes : SenderPost(o)
    \/ SenderWake
    \/ SenderDrainCheck
    \/ SenderDrainRecv

NextNet == LoopNet \/ SenderNet

NetSpec == Init /\ [][NextNet]_vars

(***************************************************************************)
(* The audio path on its own: loop() with blocks of different lengths and  *)
(* levels.  Few iterations are needed, so the queue never fills.           *)
(***************************************************************************)
MaxAudioReads == 4

\* blocks of one, two and three samples, of different amplitudes
AudioBlocks ==
    { <<Raw(400)>>, <<Raw(1311), Raw(-1311)>>, <<Raw(8000), Raw(0), Raw(-3000)>> }

AudioReadOutcomes ==
    { [err |-> ESP_OK, buf |-> b] : b \in AudioBlocks } \cup { [err |-> ESP_FAIL, buf |-> <<>>] }

AudioLoopRead ==
    \E r \in AudioReadOutcomes, dt \in ReadTimes :
        /\ reads < MaxAudioReads
        /\ LoopRead(r, dt)

NextAudio ==
    \/ \E dt \in SetupTimes : Setup(TRUE, dt)
    \/ AudioLoopRead
    \/ LoopSend1

AudioSpec == Init /\ [][NextAudio]_vars

(***************************************************************************)
(* The display on its own: refresh after refresh, each pushing the current *)
(* level into the ring buffer and printing its label.  The levels rise by  *)
(* one from refresh to refresh, so every pushed value is told from every   *)
(* other and the thresholds of the label are crossed.                      *)
(***************************************************************************)
MaxPushes == 130

\* the level of the first refresh
FirstLevels == {-75, -70, -65}

\* the level the next refresh displays
NextLevels == IF pushLog = <<>> THEN FirstLevels ELSE {pushLog[Len(pushLog)] + 1}

\* an iteration of loop() whose block has level v and whose display update is due
DisplayRefresh(v) ==
    /\ lpc = "read"
    /\ Len(pushLog) < MaxPushes
    /\ LET u == updateDisplay(ringBuf, head, v)
       IN  /\ currentDb' = v
           /\ ringBuf' = u.ringBuf
           /\ head' = u.head
           /\ label' = u.label
           /\ prevY' = u.prevY
    /\ pushLog' = Append(pushLog, v)
    /\ refreshes' = refreshes + 1
    /\ UNCHANGED <<clock, lpc, now, dBA_1s, hpf, sumsq_1s, samples_1s, t1_start_ms,
                   lastDisplayMs, rx_buf, sendQueue, senderVars, reads, lastRead, produced,
                   lastEnq, lastEvict, windowBlocks, senderHist>>
    /\ UNCHANGED webVars

NextDisplay ==
    \/ \E dt \in SetupTimes : Setup(TRUE, dt)
    \/ \E v \in NextLevels : DisplayRefresh(v)

DisplaySpec == Init /\ [][NextDisplay]_vars

(***************************************************************************)
(* Properties                                                              *)
(***************************************************************************)
QueueSeqs == [i \in 1..Len(sendQueue) |-> sendQueue[i].seq]

AtQueueCall == lpc \in {"send1", "evict", "send2"}

\* C1: the producer's enqueue never blocks: whenever loop() stands at one of the queue
\* calls of its 1-second enqueue, that call can return at once, whatever the queue holds
\* and wherever sendTask stands (waiting, posting, sleeping, draining)
C1_EnqueueNeverBlocks ==
    /\ lpc = "send1" => ENABLED LoopSend1
    /\ lpc = "evict" => ENABLED LoopEvict
    /\ lpc = "send2" => ENABLED LoopSend2

\* loop() arrives at its enqueue with the queue full while sendTask sleeps in backoff
C1_Witness == lpc = "send1" /\ Len(sendQueue) = QUEUE_LEN /\ spc = "delay"

\* C2: whenever sendTask issues a POST, the reading it sends is the newest reading that
\* had been enqueued at the moment it was taken from the queue
C2_SendsNewest == spc = "post" => dba.seq = newestAtTake

\* C3: delivery is at most once: a reading handed to a POST attempt is newer than every
\* reading attempted before, and no reading already attempted is in the queue
C3_AtMostOnce ==
    /\ spc = "post" => dba.seq > lastAttempt
    /\ \A i \in 1..Len(sendQueue) : sendQueue[i].seq > lastAttempt

\* after a failed POST a later reading is about to be posted
C3_Witness == spc = "post" /\ failStreak >= 1 /\ lastAttempt >= 1 /\ ~lastPost.ok

\* the delay after the i-th consecutive failure, in ms: min(2^(i-1), 30) seconds
ExpectedDelay(i) == 1000 * Min(2 ^ (i - 1), 30)

\* C4: after the i-th consecutive failed POST sendTask sleeps min(2^(i-1), 30) seconds:
\* 1, 2, 4, 8, 16, 30, 30, ...; the sleep uses the current delay and the delay is
\* doubled only when the sleep is over
C4_BackoffSequence ==
    /\ spc = "delay" => sleepMs = ExpectedDelay(failStreak) /\ backoffMs = sleepMs
    /\ spc # "delay" => backoffMs = ExpectedDelay(failStreak + 1)

\* the seventh consecutive failure: 30 s for the second time
C4_Witness == spc = "delay" /\ failStreak = 7 /\ sleepMs = 30000

\* C5: one successful POST returns the backoff to the base: since the last success the
\* delay is 1 s and sendTask has not slept, and the first failure after it sleeps 1 s
C5_SuccessResets ==
    /\ lastPost.ok => backoffMs = BACKOFF_BASE /\ spc # "delay" /\ sleepMs = 0
    /\ (spc = "delay" /\ failStreak = 1) => sleepMs = BACKOFF_BASE

\* a success ended a streak of failures, and the failure after it sleeps
C5_Witness == brokenStreak >= 2 /\ failStreak = 1 /\ spc = "delay" /\ sleepMs = BACKOFF_BASE

\* C6: with no dequeue by sendTask, once capacity + 1 = 6 readings have been produced the
\* queue holds exactly the 5 readings 2..6 in production order: the first is evicted and
\* the sixth is there
C6_OverflowKeepsNewest ==
    (~senderTook /\ produced = QUEUE_LEN + 1 /\ lpc = "read")
        => QueueSeqs = [i \in 1..QUEUE_LEN |-> i + 1]

\* six readings produced, the first one evicted, sendTask never ran
C6_Witness ==
    ~senderTook /\ produced = QUEUE_LEN + 1 /\ lpc = "read" /\ lastEvict.seq = 1

\* C7: a produce operation removes an entry from the queue only if the queue is full at
\* the moment of removal, and then the oldest one
C7_EvictOnlyWhenFull ==
    lastEvict # NoEvict => lastEvict.len = QUEUE_LEN /\ lastEvict.seq = lastEvict.front

\* C8: with every POST failing, the display keeps being refreshed: a loop cycle that
\* stands at its enqueue with a refresh due reaches that refresh, and loop() gets
\* through every block delivered to it, without any step of sendTask being needed
C8_DisplayUnaffected ==
    /\ (AtQueueCall /\ DisplayDue(now, lastDisplayMs)) ~> (lpc = "read" /\ lastDisplayMs = now)
    /\ <>[](lpc \in {"read", "halted"} /\ (lpc = "read" => reads = MaxReads))

\* a refresh made at a window boundary while sendTask sleeps after repeated failures and
\* the queue is full
C8_Witness ==
    /\ lpc = "read" /\ lastDisplayMs = now /\ t1_start_ms = now /\ refreshes >= 2
    /\ spc = "delay" /\ failStreak >= 2 /\ Len(sendQueue) = QUEUE_LEN

\* a step that ends a cycle of loop()
CycleEnds == lpc # "setup" /\ lpc' = "read" /\ (lpc # "read" \/ reads' # reads)

Refreshed ==
    /\ refreshes' = refreshes + 1
    /\ lastDisplayMs' = clock'
    /\ ringBuf' = [ringBuf EXCEPT ![head] = currentDb']
    /\ head' = (head + 1) % 128

\* C9 as claimed: in every loop cycle at whose end at least 120 ms have passed since the
\* last refresh, a refresh happens, also when the microphone read of that cycle failed
C9_RefreshWheneverDue ==
    [][(CycleEnds /\ clock' - lastDisplayMs >= 120) => Refreshed]_vars

\* C9 as amended: a loop cycle refreshes the display exactly when it acquired an audio
\* block and at least 120 ms have passed since the last refresh; a cycle whose read
\* failed refreshes nothing, and a cycle without refresh leaves the display state alone
C9_RefreshWhenBlockAndDue ==
    [][CycleEnds =>
         IF lastRead' = "block" /\ clock' - lastDisplayMs >= 120
         THEN Refreshed
         ELSE UNCHANGED <<refreshes, lastDisplayMs, ringBuf, head>>]_vars

\* a refresh is overdue after a cycle whose read failed
C9_Witness ==
    lpc = "read" /\ lastRead = "failure" /\ clock - lastDisplayMs >= 120 /\ refreshes >= 1

\* C10: a microphone read failure skips the cycle: the step leaves the filter state, the
\* accumulator and window start, the current dB value, the ring buffer, the display
\* timer and the queue unchanged, is the only read of its cycle, and leaves loop() at
\* the read of the next cycle
C10_ReadFailureSkipsCycle ==
    [][(reads' # reads /\ lastRead' = "failure") =>
         /\ UNCHANGED <<hpf, sumsq_1s, samples_1s, t1_start_ms, currentDb, ringBuf, head,
                        lastDisplayMs, sendQueue, produced, dBA_1s>>
         /\ reads' = reads + 1
         /\ lpc' = "read"]_vars

\* a read failed in the middle of a window, with samples accumulated
C10_Witness == lastRead = "failure" /\ lpc = "read" /\ samples_1s > 0 /\ reads >= 2

\* C11: when the display driver fails to initialise during setup the device halts for
\* good: no audio block has been read or processed, no reading has been produced or
\* enqueued, sendTask was never started and no POST was attempted, and no step of
\* either context is possible any more
C11_DisplayFailureHalts ==
    lpc = "halted" =>
        /\ reads = 0 /\ rx_buf = <<>> /\ windowBlocks = <<>>
        /\ hpf = [y |-> 0, x_prev |-> 0] /\ samples_1s = 0 /\ sumsq_1s = 0
        /\ produced = 0 /\ lastEnq = 0 /\ sendQueue = <<>>
        /\ spc = "notStarted"
        /\ lastAttempt = 0 /\ lastPost = NoPost /\ ~senderTook
        /\ ~ENABLED Next

\* setup() has ended in the endless loop of initializeOLEDDisplay
C11_Witness == lpc = "halted" /\ spc = "notStarted" /\ clock > 0

\* loop() has just read and processed a block
BlockStep == reads' = reads + 1 /\ lastRead' = "block"

\* loop() returns from the queue calls of a window boundary
BoundaryDone == AtQueueCall /\ lpc' = "read"

\* what the window test of an iteration of loop() does: with 1000 ms or more since
\* t1_start_ms one new reading is produced and taken to the queue calls; with less,
\* nothing is produced or enqueued and the accumulator is not reset
WindowStep ==
    IF clock' - t1_start_ms >= 1000
    THEN /\ produced' = produced + 1
         /\ dBA_1s'.seq = produced'
         /\ lpc' = "send1"
         /\ UNCHANGED <<sendQueue, lastEnq, t1_start_ms>>
    ELSE /\ lpc' = "read"
         /\ UNCHANGED <<produced, sendQueue, lastEnq, t1_start_ms, dBA_1s>>
         /\ samples_1s' >= samples_1s
         /\ sumsq_1s' >= sumsq_1s

\* the queue calls of a window boundary: nothing else is produced until they return,
\* and when they return the reading has been enqueued, sumsq_1s = 0, samples_1s = 0
\* and t1_start_ms = now
BoundaryRule ==
    /\ AtQueueCall =>
         /\ produced' = produced
         /\ lpc' \in {"send1", "evict", "send2", "read"}
         /\ lpc' # "read" => UNCHANGED <<sumsq_1s, samples_1s, t1_start_ms, lastEnq>>
    /\ BoundaryDone =>
         /\ lastEnq' = dBA_1s.seq
         /\ lastEnq' = lastEnq + 1
         /\ sendQueue'[Len(sendQueue')].seq = dBA_1s.seq
         /\ sumsq_1s' = 0 /\ samples_1s' = 0
         /\ t1_start_ms' = now

\* C12, as claimed: the 1-second window is time based and handled once per elapsed
\* window, in every iteration of loop(): with at least 1000 ms since the window start
\* exactly one reading is offered to the queue and afterwards sumsq_1s = 0,
\* samples_1s = 0 and t1_start_ms = now; with less, nothing is enqueued and the
\* accumulator is not reset
C12_WindowEveryIteration ==
    [][(reads' # reads => WindowStep) /\ BoundaryRule]_vars

\* C12: the 1-second window is time based and handled once per elapsed window, in
\* every iteration of loop() that acquired a block: with at least 1000 ms since the
\* window start exactly one reading is offered to the queue and afterwards
\* sumsq_1s = 0, samples_1s = 0 and t1_start_ms = now; with less, nothing is enqueued
\* and the accumulator grows by the block; an iteration whose read fails leaves the
\* window as it is, however long it has been open
C12_WindowOncePerSecond ==
    [][/\ BlockStep =>
            /\ WindowStep
            /\ clock' - t1_start_ms < 1000 =>
                  samples_1s' = samples_1s + Len(rx_buf') /\ samples_1s' > 0
       /\ (reads' # reads /\ lastRead' = "failure") =>
            UNCHANGED <<produced, sendQueue, lastEnq, sumsq_1s, samples_1s, t1_start_ms, lpc>>
       /\ BoundaryRule
      ]_vars

\* a second window has just been closed exactly 1000 ms after it was opened, and the
\* blocks before the boundary were accumulated without a reset
C12_Witness ==
    /\ lpc = "read" /\ produced = 2 /\ lastEnq = 2
    /\ samples_1s = 0 /\ t1_start_ms = now /\ reads >= 3

C17_OnlyQueueShared ==
    [][/\ (spc # "notStarted" /\ spc' # spc) =>
            UNCHANGED <<hpf, sumsq_1s, samples_1s, t1_start_ms, currentDb, ringBuf, head,
                        lastDisplayMs, rx_buf, label, now, dBA_1s>>
       /\ (lpc' # lpc \/ reads' # reads) =>
            UNCHANGED <<backoffMs, sleepMs, dba>>
      ]_vars

\* both contexts have worked side by side: sendTask has failed and succeeded while
\* loop() filtered, accumulated and refreshed
C17_Witness ==
    /\ brokenStreak >= 1 /\ backoffMs = BACKOFF_BASE /\ lastPost.ok
    /\ hpf.x_prev # 0 /\ samples_1s > 0 /\ refreshes >= 1 /\ currentDb # INITIAL_DB

\* the filter state after the samples of buf, starting from h
RECURSIVE HpfAfter(_, _, _)
HpfAfter(h, buf, mean) ==
    IF buf = <<>> THEN h
    ELSE HpfAfter(HpfProcess(h, Shift14(Head(buf)) - mean), Tail(buf), mean)

\* C18: the filter state persists across blocks and is never reset: it changes only
\* in an iteration that read a block, where it becomes the state that processing the
\* samples of the block leaves when started from the state the previous block left;
\* window resets, display refreshes, failed reads and sendTask leave it unchanged
C18_FilterStatePersists ==
    [][/\ hpf' # hpf => BlockStep
       /\ BlockStep => hpf' = HpfAfter(hpf, rx_buf', calculateMean(rx_buf'))
       /\ (BoundaryDone \/ (reads' # reads /\ lastRead' = "failure") \/ spc' # spc) =>
            hpf' = hpf
      ]_vars

\* a failed read after a window reset and a display refresh has left a filter state
\* that earlier blocks had moved from rest
C18_Witness ==
    /\ lastRead = "failure" /\ hpf.x_prev # 0 /\ hpf.y # 0
    /\ produced >= 1 /\ refreshes >= 1

RECURSIVE SumOfSumsq(_)
SumOfSumsq(blocks) == IF blocks = <<>> THEN 0 ELSE Head(blocks).s + SumOfSumsq(Tail(blocks))

RECURSIVE SumOfCounts(_)
SumOfCounts(blocks) == IF blocks = <<>> THEN 0 ELSE Head(blocks).n + SumOfCounts(Tail(blocks))

\* the average of the per-block mean squares, which the reading must not be based on
RECURSIVE SumOfMeanSquares(_)
SumOfMeanSquares(blocks) ==
    IF blocks = <<>> THEN 0
    ELSE (Head(blocks).s \div Head(blocks).n) + SumOfMeanSquares(Tail(blocks))

\* C14: the accumulator holds the totals of all blocks processed since the last reset:
\* sumsq_1s is the sum of the per-block sums of squares and samples_1s the sum of the
\* per-block sample counts; at a window boundary these include the block processed in
\* the boundary iteration, and the reading emitted is the level of
\* (s1+...+sk)/(n1+...+nk)
C14_WindowTotals ==
    /\ sumsq_1s = SumOfSumsq(windowBlocks)
    /\ samples_1s = SumOfCounts(windowBlocks)
    /\ AtQueueCall =>
          /\ Len(windowBlocks) >= 1
          /\ windowBlocks[Len(windowBlocks)].n = Len(rx_buf)
          /\ dBA_1s.db = convertToDecibels(SumOfSumsq(windowBlocks)
                                              \div SumOfCounts(windowBlocks))

\* a window of three blocks of different lengths has reached its boundary, and the
\* level of the totals differs from the level of the averaged per-block mean squares
C14_Witness ==
    /\ AtQueueCall /\ Len(windowBlocks) = 3
    /\ windowBlocks[1].n # windowBlocks[2].n /\ windowBlocks[2].n # windowBlocks[3].n
    /\ dBA_1s.db # convertToDecibels(SumOfMeanSquares(windowBlocks) \div 3)

\* the last n entries of a sequence
LastN(seq, n) == SubSeq(seq, Len(seq) - n + 1, Len(seq))

\* C15: after 128 + k pushes (k >= 1) the ring buffer, read from head forward with
\* wrap-around as drawGraph reads it, is the last 128 pushed values in push order,
\* oldest first; none of the first k pushed values is left in it; and the cursor
\* always satisfies 0 <= head < 128
C15_RingKeepsLast128 ==
    /\ head \in 0..(GRAPH_W - 1)
    /\ Len(pushLog) > GRAPH_W =>
          /\ drawGraphOrder(ringBuf, head) = LastN(pushLog, GRAPH_W)
          /\ \A j \in 1..(Len(pushLog) - GRAPH_W) :
                 \A i \in 0..(GRAPH_W - 1) : ringBuf[i] # pushLog[j]

\* 130 values were pushed: the cursor has wrapped and the first two are overwritten
C15_Witness == Len(pushLog) = GRAPH_W + 2 /\ head = 2 /\ ringBuf[1] = pushLog[GRAPH_W + 2]

\* C16: the label printed with a displayed value is a function of that value alone,
\* with the fixed limit 55: OK when the value is <= 50, CAUTION when 50 < value <= 60,
\* HIGH when the value is > 60; exactly one of the three is printed with every value
C16_LabelByFixedLimit ==
    LET v == pushLog[Len(pushLog)]
    IN  /\ label = "none" <=> pushLog = <<>>
        /\ pushLog # <<>> =>
              /\ label \in {"OK", "CAUTION", "HIGH"}
              /\ label = "OK" <=> v <= 50
              /\ label = "CAUTION" <=> (50 < v /\ v <= 60)
              /\ label = "HIGH" <=> v > 60

\* the value 60, the upper end of CAUTION, is on the display, long after setup
C16_Witness ==
    /\ pushLog # <<>> /\ pushLog[Len(pushLog)] = 60 /\ currentDb = 60
    /\ label = "CAUTION" /\ Len(pushLog) > 100

C20_AnyStatusDelivered ==
    lastPost # NoPost =>
        /\ lastPost.ok <=> (lastPost.requested /\ lastPost.code > 0)
        /\ lastPost.ok =>
              /\ backoffMs = BACKOFF_BASE /\ failStreak = 0
              /\ spc # "delay" /\ sleepMs = 0
        /\ ~lastPost.ok =>
              /\ failStreak >= 1
              /\ spc = "delay" \/ backoffMs > BACKOFF_BASE
              /\ spc = "delay" => sleepMs = backoffMs

\* a 500 response has ended a run of failed POSTs and the delay is back at the base
C20_Witness ==
    /\ lastPost.code = 500 /\ lastPost.ok /\ brokenStreak >= 2
    /\ backoffMs = BACKOFF_BASE /\ spc = "drain"

\* the delays the doubling can produce
BackoffDelays == {BACKOFF_MAX} \cup {BACKOFF_BASE * 2 ^ n : n \in 0..4}

\* C26: in every reachable state of sendTask the backoff delay lies between the base
\* of 1000 ms and the maximum of 30000 ms, and is 30000 or 1000 times a power of two;
\* so is the delay of a sleep under way
C26_BackoffBounds ==
    /\ BACKOFF_BASE <= backoffMs /\ backoffMs <= BACKOFF_MAX
    /\ backoffMs = 30000 \/ \E n \in 0..14 : backoffMs = 1000 * 2 ^ n
    /\ backoffMs \in BackoffDelays
    /\ spc = "delay" => sleepMs \in BackoffDelays

\* sendTask posts again after five failures in a row, with the delay at its maximum
C26_Witness == backoffMs = BACKOFF_MAX /\ spc = "post" /\ failStreak = 5

\* C27: in every reachable state the queue holds at most 5 readings, and front to back
\* they are consecutive readings of the production sequence in production order: no
\* reordering, no duplicate, no gap
C27_QueueContiguous ==
    /\ Len(sendQueue) <= QUEUE_LEN
    /\ \A i \in 1..Len(sendQueue) : sendQueue[i].seq \in 1..produced
    /\ \A i \in 1..(Len(sendQueue) - 1) : sendQueue[i + 1].seq = sendQueue[i].seq + 1

\* the queue is full again after an eviction by loop() and a removal by sendTask
C27_Witness ==
    /\ Len(sendQueue) = QUEUE_LEN /\ sendQueue[1].seq >= 3
    /\ senderTook /\ lastEvict # NoEvict

\* C28: when the queue calls of a window boundary return, the reading just produced is
\* the last element of the queue, whatever sendTask did in between; the second
\* xQueueSend, made after the eviction, always finds room
C28_ProducedReadingEnqueued ==
    [][/\ lpc = "send2" => Len(sendQueue) < QUEUE_LEN
       /\ BoundaryDone =>
            /\ sendQueue' # <<>>
            /\ sendQueue'[Len(sendQueue')] = dBA_1s
            /\ lastEnq' = dBA_1s.seq
       /\ (lpc = "send2" /\ lpc' = "read") => Len(sendQueue') = Len(sendQueue) + 1
      ]_vars

\* a reading has gone in by the second xQueueSend, after an eviction, while sendTask
\* was taking readings too
C28_Witness ==
    /\ lpc = "read" /\ lastEvict.seq >= 1 /\ senderTook
    /\ lastEnq = produced /\ produced >= QUEUE_LEN + 1
    /\ sendQueue # <<>> /\ sendQueue[Len(sendQueue)].seq = produced

\* C29, as claimed: when the queue holds a reading as the drain loop of sendTask
\* begins, the loop never removes the last remaining entry, and when it ends the queue
\* is not empty and the entry left is the most recently enqueued reading
C29_DrainKeepsNewest ==
    [][/\ (nonEmptyAtDrain /\ spc = "drainRecv" /\ spc' = "drain") => sendQueue' # <<>>
       /\ (nonEmptyAtDrain /\ spc = "drain" /\ spc' = "wait") =>
            /\ sendQueue # <<>>
            /\ sendQueue[Len(sendQueue)].seq = lastEnq
      ]_vars

\* postToBackend has returned
PostStep == spc = "post" /\ spc' # "post"

\* what sendTask does with a failed attempt: the reading is not put back, the sleep
\* lasts the current delay, which is unchanged until the sleep ends
FailureEffect ==
    /\ ~lastPost'.ok
    /\ lastPost'.seq = dba.seq
    /\ spc' = "delay"
    /\ sleepMs' = backoffMs
    /\ failStreak' = failStreak + 1
    /\ UNCHANGED <<backoffMs, sendQueue, dba>>

\* C30: when Wi-Fi is not connected sendTask issues no HTTP request for the reading it
\* took, counts the attempt as failed, does not put the reading back, sleeps for the
\* current delay and then doubles it up to 30000 ms and goes on to the drain loop;
\* a transport failure of a request that was issued has the same effect
C30_WifiDownIsFailure ==
    [][/\ (PostStep /\ ~lastPost'.wifi) => (~lastPost'.requested /\ FailureEffect)
       /\ (PostStep /\ lastPost'.wifi /\ lastPost'.code <= 0) =>
            (lastPost'.requested /\ FailureEffect)
       /\ (spc = "delay" /\ spc' # "delay") =>
            /\ backoffMs' = Min(2 * sleepMs, 30000)
            /\ spc' = "drain"
            /\ lastAttempt' = lastAttempt
            /\ UNCHANGED <<sendQueue, dba>>
      ]_vars

\* Wi-Fi was down for the third attempt in a row; no request went out, and sendTask
\* has slept and doubled the delay
C30_Witness ==
    /\ lastPost # NoPost /\ ~lastPost.wifi /\ ~lastPost.requested
    /\ failStreak = 3 /\ backoffMs = 8000 /\ spc = "drain"

(***************************************************************************)
(* sendTask under a fair scheduler.  loop() and sendTask are pinned to     *)
(* different cores, http.POST is bounded by setTimeout(800) and the        *)
(* connection timeout, vTaskDelay(pdMS_TO_TICKS(backoffMs)) by at most     *)
(* BACKOFF_MAX, and the queue calls of the drain take no time: every step  *)
(* of either task is taken once it stays possible.  What the backend       *)
(* answers, and whether Wi-Fi is up, stays open at every attempt.          *)
(***************************************************************************)
LiveOutcomes == PostOutcomes \cup { [wifi |-> FALSE, code |-> 0] }

SenderLive ==
    \/ SenderReceive
    \/ \E o \in LiveOutcomes : SenderPost(o)
    \/ SenderWake
    \/ SenderDrainCheck
    \/ SenderDrainRecv

NextLive == LoopNet \/ SenderLive

LiveSpec ==
    /\ Init
    /\ [][NextLive]_vars
    /\ WF_vars(\E dt \in SetupTimes : Setup(TRUE, dt))
    /\ WF_vars(\E r \in OnlineReads, dt \in OnlineTimes : LoopRead(r, dt))
    /\ WF_vars(LoopSend1)
    /\ WF_vars(LoopEvict)
    /\ WF_vars(LoopSend2)
    /\ WF_vars(SenderReceive)
    /\ WF_vars(\E o \in LiveOutcomes : SenderPost(o))
    /\ WF_vars(SenderWake)
    /\ WF_vars(SenderDrainCheck)
    /\ WF_vars(SenderDrainRecv)

\* C21: sendTask has no terminal state and cannot deadlock: a reading waiting in
\* the queue is always followed by a further call of postToBackend, from any
\* position of sendTask and after any number of failures; every POST under way
\* returns, and is then an attempt for a later reading than any before; every
\* backoff sleep ends in the drain loop, the drain loop ends in the blocking
\* receive, and the blocking receive ends once a reading is queued.
C21_SenderNeverStops ==
    /\ (sendQueue # <<>> /\ spc # "post") ~> (spc = "post")
    /\ (spc = "post") ~> (spc # "post")
    /\ [][PostStep => lastAttempt' > lastAttempt]_vars
    /\ (spc = "delay") ~> (spc = "drain")
    /\ (spc \in {"drain", "drainRecv"}) ~> (spc = "wait")

C21_Witness ==
    /\ spc = "post" /\ failStreak >= 6 /\ backoffMs = BACKOFF_MAX
    /\ lastAttempt >= 6 /\ ~lastPost.ok

(***************************************************************************)
(* The dashboard (Dashboard.tsx): day/night thresholds                     *)
(*                                                                         *)
(* Levels are in hundredths of a dB here, the resolution of the            *)
(* DECIMAL(5,2) column they come from.                                     *)
(***************************************************************************)
Centi == 100

Hours == 0..23

\* (a night that began an hour later)
getIsNightNowFrom23(h) == h >= 23 \/ h < 7

\* getIsNightNow(), with h = new Date().getHours()
getIsNightNow(h) == h >= 22 \/ h < 7

\* (a classification that ignored the night)
classifyByDayOnly(v, night) ==
    LET limit == 55
    IN  IF v <= (limit - 5) * Centi THEN "OK"
        ELSE IF v <= (limit + 5) * Centi THEN "CAUTION" ELSE "HIGH"

\* classify(dba, night).label
classify(v, night) ==
    LET limit == IF night THEN 45 ELSE 55
    IN  IF v <= (limit - 5) * Centi THEN "OK"
        ELSE IF v <= (limit + 5) * Centi THEN "CAUTION" ELSE "HIGH"

\* the levels the dashboard is given to show: around every threshold, and far from them
DashLevels ==
    {0, 12000} \cup { d * Centi + e : d \in {40, 45, 50, 55, 60}, e \in {-1, 0, 1} }

\* the component mounts: useState(getIsNightNow())
DashMount(h) ==
    /\ hour = NotMounted
    /\ hour' = h
    /\ isNight' = getIsNightNow(h)
    /\ UNCHANGED <<status, liveVars, historyVars, backendVars, firmwareVars>>

\* an hour of the browser's local time goes by
DashHourPasses ==
    /\ hour # NotMounted
    /\ hour' = (hour + 1) % 24
    /\ UNCHANGED <<isNight, status, liveVars, historyVars, backendVars, firmwareVars>>

\* the setInterval callback, every 60 s: setIsNight(getIsNightNow())
DashNightTimer ==
    /\ hour # NotMounted
    /\ isNight' = getIsNightNow(hour)
    /\ UNCHANGED <<hour, status, liveVars, historyVars, backendVars, firmwareVars>>

\* a render with current = v: const status = classify(current, isNight)
DashRender(v) ==
    /\ hour # NotMounted
    /\ status' = [dba |-> v, night |-> isNight, label |-> classify(v, isNight)]
    /\ UNCHANGED <<hour, isNight, liveVars, historyVars, backendVars, firmwareVars>>

NextDash ==
    \/ \E h \in Hours : DashMount(h)
    \/ DashHourPasses
    \/ DashNightTimer
    \/ \E v \in DashLevels : DashRender(v)

DashSpec == Init /\ [][NextDash]_vars

\* the label the claim gives a level under a limit
LabelUnder(v, limit) ==
    IF v <= (limit - 5) * Centi THEN "OK"
    ELSE IF v <= (limit + 5) * Centi THEN "CAUTION" ELSE "HIGH"

\* the night flag is evaluated in this step (at mount, or by the timer)
NightEvaluated == (hour = NotMounted /\ hour' # NotMounted) \/ (hour' = hour /\ status' = status)

\* C22: whenever the dashboard evaluates the night flag (at mount and by its
\* 60-second timer) the flag is set exactly when the local hour is 22 or later
\* or earlier than 7; every level rendered is labelled under the limit 45 when
\* the flag is set and 55 otherwise: OK up to limit - 5, CAUTION above that up
\* to limit + 5, HIGH above; by day a whole-dB level gets the label the firmware
\* prints for it.
C22_DayNightThresholds ==
    [][/\ NightEvaluated => (isNight' <=> (hour' >= 22 \/ hour' < 7))
       /\ status' # status =>
              /\ status'.night = isNight
              /\ status'.label = LabelUnder(status'.dba, IF isNight THEN 45 ELSE 55)
              /\ (~isNight /\ status'.dba % Centi = 0)
                     => status'.label = drawHeaderLabel(status'.dba \div Centi)]_vars

\* a level rendered at night that the firmware labels otherwise
C22_Witness ==
    /\ hour = 23 /\ isNight /\ status.night
    /\ status.dba = 50 * Centi
    /\ status.label = "CAUTION"
    /\ drawHeaderLabel(status.dba \div Centi) = "OK"

(***************************************************************************)
(* The backend (server.js)                                                 *)
(*                                                                         *)
(* A value of a JSON body or of a query string is a record: its JavaScript *)
(* type t, and the number n (in hundredths) or the string s it is.         *)
(* Timestamps are seconds since the midnight that begins day 0.            *)
(***************************************************************************)
JUndefined == [t |-> "undefined", n |-> 0, s |-> ""]
JNull      == [t |-> "null", n |-> 0, s |-> ""]
JNum(x)    == [t |-> "number", n |-> x, s |-> ""]
JStr(x)    == [t |-> "string", n |-> 0, s |-> x]

\* JavaScript: !v
Falsy(v) ==
    \/ v.t \in {"undefined", "null"}
    \/ v.t = "number" /\ v.n = 0
    \/ v.t = "string" /\ v.s = ""

\* a || b
OrElse(a, b) == IF Falsy(a) THEN b ELSE a

\* rows the table may hold in the model
MaxRows == 2

\* the instants of the database clock
DbTimes == {30, 3700, 86500}

\* the text the pg driver sends for a string parameter
PgText(v) == v.s

\* device_id VARCHAR(50)
FitsDeviceId(v) == Len(PgText(v)) <= 50

\* dba_instant DECIMAL(5,2): a number below 1000 in magnitude; the strings of
\* the model are not numbers
FitsDbaInstant(v) == v.t = "number" /\ -1000 * Centi < v.n /\ v.n < 1000 * Centi

\* INSERT INTO public.noise_readings (device_id, dba_instant) VALUES ($1, $2)
\* RETURNING *: the new table and the row, or an error
InsertReading(table, dev, v, t, dbUp) ==
    IF dbUp /\ FitsDeviceId(dev) /\ FitsDbaInstant(v)
    THEN LET row == [id |-> Len(table) + 1, device_id |-> PgText(dev),
                     dba_instant |-> v.n, timestamp |-> t]
         IN  [ok |-> TRUE, table |-> Append(table, row), rows |-> <<row>>]
    ELSE [ok |-> FALSE, table |-> table, rows |-> <<>>]

\* (a handler that took 0 for a missing value)
dbaMissingOrZero(v) == Falsy(v)

\* dba_instant === undefined || dba_instant === null
dbaMissing(v) == v.t \in {"undefined", "null"}

\* app.post("/api/noise-data")
PostNoiseData(body, dbUp) ==
    /\ res = NoResponse
    /\ IF dbaMissing(body.dba_instant)
       THEN /\ res' = [route |-> "noise-data", req |-> body, status |-> 400,
                       body |-> <<>>, queries |-> <<>>]
            /\ UNCHANGED noise_readings
       ELSE LET deviceName == OrElse(body.device_id, JStr("ESP32_001"))
                q == InsertReading(noise_readings, deviceName, body.dba_instant, dbNow, dbUp)
            IN  /\ noise_readings' = q.table
                /\ res' = [route |-> "noise-data", req |-> body,
                           status |-> IF q.ok THEN 201 ELSE 500,
                           body |-> q.rows,
                           queries |-> << [sql |-> "insert", device_id |-> deviceName] >>]
    /\ UNCHANGED <<dbNow, dashboardVars, firmwareVars>>

\* the response has gone out; the server is ready for the next request
RequestDone ==
    /\ res # NoResponse
    /\ res' = NoResponse
    /\ UNCHANGED <<noise_readings, dbNow, dashboardVars, firmwareVars>>

\* time goes by at the database
DbClockAdvances(t) ==
    /\ t > dbNow
    /\ dbNow' = t
    /\ UNCHANGED <<noise_readings, res, dashboardVars, firmwareVars>>

\* a device_id of 51 characters
LongDeviceId == "ESP32_0000000000000000000000000000000000000000000001"

\* the bodies POSTed: what the firmware sends, and what it does not
PostBodies ==
    [ dba_instant : {JUndefined, JNull, JNum(0), JNum(5635), JNum(1000 * Centi), JStr("loud")},
      device_id   : {JUndefined, JStr(""), JStr("ESP32_001"), JStr("ESP32_002"),
                     JStr(LongDeviceId)} ]

NextPost ==
    \/ \E body \in PostBodies, dbUp \in BOOLEAN :
           /\ Len(noise_readings) < MaxRows
           /\ PostNoiseData(body, dbUp)
    \/ RequestDone
    \/ \E t \in DbTimes : DbClockAdvances(t)

PostSpec == Init /\ [][NextPost]_vars

\* a request to POST /api/noise-data is answered in this step
PostAnswered == res'.route = "noise-data" /\ res' # res

\* C23: POST /api/noise-data with dba_instant missing or null is answered 400
\* and neither queries nor changes the table; with any other dba_instant, 0
\* included, it runs exactly one INSERT, under the given device_id or under
\* "ESP32_001" when device_id is absent or empty, and is answered 201 with
\* exactly that one row added to the table, or 500 with the table unchanged.
C23_OneRowPerAcceptedPost ==
    [][PostAnswered =>
        LET b == res'.req
        IN  IF b.dba_instant \in {JUndefined, JNull}
            THEN /\ res'.status = 400
                 /\ res'.queries = <<>>
                 /\ noise_readings' = noise_readings
            ELSE /\ Len(res'.queries) = 1
                 /\ res'.queries[1].sql = "insert"
                 /\ res'.queries[1].device_id =
                        IF b.device_id \in {JUndefined, JStr("")}
                        THEN JStr("ESP32_001") ELSE b.device_id
                 /\ res'.status \in {201, 500}
                 /\ res'.status = 201 =>
                        /\ Len(noise_readings') = Len(noise_readings) + 1
                        /\ SubSeq(noise_readings', 1, Len(noise_readings)) = noise_readings
                        /\ noise_readings'[Len(noise_readings')].device_id
                               = res'.queries[1].device_id.s
                        /\ noise_readings'[Len(noise_readings')].dba_instant = b.dba_instant.n
                        /\ res'.body = << noise_readings'[Len(noise_readings')] >>
                 /\ res'.status = 500 => noise_readings' = noise_readings]_vars

\* a reading of 0 stored under the default device, next to one of another device
C23_Witness ==
    /\ res.route = "noise-data" /\ res.status = 201
    /\ res.req.dba_instant = JNum(0) /\ res.req.device_id = JStr("")
    /\ Len(noise_readings) = 2
    /\ noise_readings[2].device_id = "ESP32_001" /\ noise_readings[2].dba_instant = 0
    /\ noise_readings[2].timestamp = 3700
    /\ noise_readings[1].device_id = "ESP32_002"

(***************************************************************************)
(* The backend: GET /api/history and GET /api/hourly                       *)
(***************************************************************************)
SecondsPerMinute == 60
SecondsPerHour   == 3600
SecondsPerDay    == 86400

\* (a helper that let any preset through)
safePresetAny(preset) == preset

\* safePreset(preset): the preset when allowed, null otherwise
safePreset(preset) ==
    IF preset.t = "string" /\ preset.s \in {"60s", "60m", "24h", "7d", "day"}
    THEN preset ELSE JNull

\* date_trunc(unit, timestamp)
DateTrunc(unit, t) == t - (t % unit)

\* $2::date: the day a date text names, when it names one
DateTexts == {"1970-01-01", "1970-01-02"}
PgDate(txt) == IF txt = "1970-01-01" THEN 0 ELSE 1

\* the positions of the rows of a device in the table
RowsOf(table, dev) == { i \in 1..Len(table) : table[i].device_id = dev }

SetMax(S) == CHOOSE x \in S : \A y \in S : y <= x
SetMin(S) == CHOOSE x \in S : \A y \in S : x <= y

\* ORDER BY timestamp ASC for the rows at the positions S: every order the
\* database may deliver (rows of one timestamp come in any order)
RECURSIVE OrderByTimestampAsc(_, _)
OrderByTimestampAsc(table, S) ==
    IF S = {} THEN { <<>> }
    ELSE LET newest == SetMax({ table[i].timestamp : i \in S })
         IN  UNION { { Append(rest, table[i]) : rest \in OrderByTimestampAsc(table, S \ {i}) }
                     : i \in { j \in S : table[j].timestamp = newest } }

Reverse(s) == [i \in 1..Len(s) |-> s[Len(s) + 1 - i]]

\* ORDER BY timestamp DESC
OrderByTimestampDesc(table, S) == { Reverse(s) : s \in OrderByTimestampAsc(table, S) }

\* LIMIT n
Limit(s, n) == SubSeq(s, 1, Min(n, Len(s)))

\* SELECT timestamp, dba_instant::float AS dba
AsPoint(row) == [timestamp |-> row.timestamp, dba |-> row.dba_instant]

RECURSIVE SumDba(_, _)
SumDba(table, S) ==
    IF S = {} THEN 0
    ELSE LET i == CHOOSE j \in S : TRUE IN table[i].dba_instant + SumDba(table, S \ {i})

\* SELECT date_trunc(unit, timestamp), AVG(dba_instant) ... GROUP BY 1 ORDER BY 1 ASC
\* for the rows at the positions S (the average is cut to hundredths)
RECURSIVE GroupedAverages(_, _, _)
GroupedAverages(table, S, unit) ==
    IF S = {} THEN <<>>
    ELSE LET first == SetMin({ DateTrunc(unit, table[i].timestamp) : i \in S })
             G == { i \in S : DateTrunc(unit, table[i].timestamp) = first }
         IN  << [timestamp |-> first, dba |-> SumDba(table, G) \div Cardinality(G)] >>
                 \o GroupedAverages(table, S \ G, unit)

\* WHERE device_id = $1 AND timestamp >= from
Since(table, dev, from) == { i \in RowsOf(table, dev) : from <= table[i].timestamp }

\* WHERE device_id = $1 AND timestamp >= from AND timestamp < to
Between(table, dev, from, to) == { i \in Since(table, dev, from) : table[i].timestamp < to }

\* the results the query of a preset may have
HistoryQuery(preset, table, dev, t, day) ==
    CASE preset = "60s" ->
            { [ i \in 1..Len(Limit(s, 60)) |-> AsPoint(s[i]) ]
                : s \in OrderByTimestampDesc(table, RowsOf(table, dev)) }
      [] preset = "60m" ->
            { GroupedAverages(table, Since(table, dev, t - 60 * SecondsPerMinute),
                              SecondsPerMinute) }
      [] preset = "24h" ->
            { GroupedAverages(table, Since(table, dev, t - 24 * SecondsPerHour),
                              SecondsPerHour) }
      [] preset = "7d" ->
            { GroupedAverages(table, Since(table, dev, t - 7 * SecondsPerDay),
                              SecondsPerDay) }
      [] preset = "day" ->
            { GroupedAverages(table, Between(table, dev, day * SecondsPerDay,
                                             (day + 1) * SecondsPerDay),
                              SecondsPerHour) }
      \* (the switch has no default: no query text, the query fails)
      [] OTHER -> {}

\* (a 60s response left in the order of the query)
HistoryBodyUnreversed(preset, rows) == rows

\* if (preset === "60s") return res.json(result.rows.reverse()); return res.json(result.rows)
HistoryBody(preset, rows) == IF preset = "60s" THEN Reverse(rows) ELSE rows

\* app.get("/api/history")
GetHistory(query, dbUp) ==
    LET device_id == OrElse(query.device_id, JStr("ESP32_001"))
        preset    == safePreset(query.preset)
        date      == query.date
        answer(st, b, qs) == [route |-> "history", req |-> query, status |-> st,
                              body |-> b, queries |-> qs]
    IN  /\ res = NoResponse
        /\ IF Falsy(preset)
           THEN res' = answer(400, <<>>, <<>>)
           ELSE IF preset.s = "day" /\ Falsy(date)
           THEN res' = answer(400, <<>>, <<>>)
           ELSE LET q == [sql |-> preset.s, device_id |-> device_id]
                IN  IF dbUp /\ (preset.s = "day" => date.s \in DateTexts)
                    THEN \E rows \in HistoryQuery(preset.s, noise_readings, PgText(device_id),
                                                  dbNow, PgDate(date.s)) :
                             res' = answer(200, HistoryBody(preset.s, rows), <<q>>)
                    ELSE res' = answer(500, <<>>, <<q>>)
        /\ UNCHANGED <<noise_readings, dbNow, dashboardVars, firmwareVars>>

\* JavaScript numbers that parseInt returns: an integer, or NaN
NaN == [finite |-> FALSE, n |-> 0]
Finite(x) == [finite |-> TRUE, n |-> x]

IsDigit(c) == c \in {"0", "1", "2", "3", "4", "5", "6", "7", "8", "9"}

DigitValue(c) ==
    CASE c = "0" -> 0 [] c = "1" -> 1 [] c = "2" -> 2 [] c = "3" -> 3 [] c = "4" -> 4
      [] c = "5" -> 5 [] c = "6" -> 6 [] c = "7" -> 7 [] c = "8" -> 8 [] c = "9" -> 9

\* the value of the digits a text begins with, after the digits already read
RECURSIVE LeadingDigits(_, _)
LeadingDigits(txt, acc) ==
    IF txt = "" \/ ~IsDigit(Head(txt)) THEN acc
    ELSE LeadingDigits(Tail(txt), 10 * acc + DigitValue(Head(txt)))

RECURSIVE TrimStart(_)
TrimStart(txt) == IF txt # "" /\ Head(txt) = " " THEN TrimStart(Tail(txt)) ELSE txt

\* parseInt(value, 10): leading blanks, a sign, then the digits up to the first
\* character that is none; NaN without a digit, and for undefined
parseInt(v) ==
    IF v.t # "string" THEN NaN
    ELSE LET t0  == TrimStart(v.s)
             neg == t0 # "" /\ Head(t0) = "-"
             t1  == IF t0 # "" /\ Head(t0) \in {"-", "+"} THEN Tail(t0) ELSE t0
         IN  IF t1 = "" \/ ~IsDigit(Head(t1)) THEN NaN
             ELSE Finite(IF neg THEN 0 - LeadingDigits(t1, 0) ELSE LeadingDigits(t1, 0))

\* parseLimit(value, def = 60)
parseLimit(value, def) ==
    LET n == parseInt(value)
    IN  IF ~n.finite \/ n.n <= 0 \/ n.n > 5000 THEN def ELSE n.n

\* (an endpoint that answered in the order of its query, newest first)
HourlyBodyNewestFirst(rows) == rows

\* res.json(result.rows.reverse())
HourlyBody(rows) == Reverse(rows)

\* the positions the query of /api/hourly selects from: the rows of the device,
\* or every row when the request names no device
HourlyRows(table, device_id) ==
    IF Falsy(device_id) THEN 1..Len(table) ELSE RowsOf(table, PgText(device_id))

\* app.get("/api/hourly")
GetHourly(query, dbUp) ==
    LET recordLimit == parseLimit(query.limit, 60)
        q == [sql |-> "hourly", device_id |-> query.device_id]
        answer(st, b) == [route |-> "hourly", req |-> query, status |-> st,
                          body |-> b, queries |-> <<q>>]
    IN  /\ res = NoResponse
        /\ IF dbUp
           THEN \E s \in OrderByTimestampDesc(noise_readings,
                                              HourlyRows(noise_readings, query.device_id)) :
                    res' = answer(200, HourlyBody(Limit(s, recordLimit)))
           ELSE res' = answer(500, <<>>)
        /\ UNCHANGED <<noise_readings, dbNow, dashboardVars, firmwareVars>>

(***************************************************************************)
(* The tables the history endpoints are asked about: every table of up to  *)
(* MaxRows rows, stored at any instants of the database clock by either    *)
(* device, and the table that one sensor posting a reading each second     *)
(* (with a second sensor posting every seventh) fills, row after row,      *)
(* beyond the 60 rows of the 60s preset.                                   *)
(***************************************************************************)
MaxStream == 72

\* the first level of the stream; its readings rise by a hundredth each
StreamBase == 4000

\* the table holds the stream of the sensor
InStream == noise_readings # <<>> /\ noise_readings[1].dba_instant = StreamBase

\* what is stored by hand
StoredBodies ==
    [ dba_instant : {JNum(0), JNum(5635)},
      device_id   : {JUndefined, JStr("ESP32_002")} ]

\* the next body of the stream
StreamBody ==
    [ dba_instant |-> JNum(StreamBase + Len(noise_readings)),
      device_id   |-> IF Len(noise_readings) % 7 = 6 THEN JStr("ESP32_002")
                      ELSE JStr("ESP32_001") ]

StorePost ==
    \E body \in StoredBodies :
        /\ ~InStream
        /\ Len(noise_readings) < MaxRows
        /\ PostNoiseData(body, TRUE)

StreamPost ==
    /\ (noise_readings = <<>> /\ dbNow = 0) \/ InStream
    /\ Len(noise_readings) < MaxStream
    /\ noise_readings # <<>> => noise_readings[Len(noise_readings)].timestamp < dbNow
    /\ PostNoiseData(StreamBody, TRUE)

StoreClock ==
    \E t \in DbTimes :
        /\ ~InStream
        /\ DbClockAdvances(t)

StreamClock ==
    /\ InStream
    /\ noise_readings[Len(noise_readings)].timestamp = dbNow
    /\ DbClockAdvances(dbNow + 1)

\* the query strings of GET /api/history: a date comes with preset=day
HistoryQueries ==
    [ device_id : {JUndefined, JStr(""), JStr("ESP32_002")},
      preset    : {JUndefined, JStr("60s"), JStr("60m"), JStr("24h"), JStr("7d"), JStr("1h"),
                   JStr("60S")},
      date      : {JUndefined} ]
    \cup
    [ device_id : {JUndefined, JStr("ESP32_002")},
      preset    : {JStr("day")},
      date      : {JUndefined, JStr(""), JStr("1970-01-01"), JStr("1970-01-02"),
                   JStr("yesterday")} ]

\* the query strings of GET /api/hourly
HourlyQueries ==
    [ device_id : {JUndefined, JStr(""), JStr("ESP32_001"), JStr("ESP32_002")},
      limit     : {JUndefined, JStr("1"), JStr("2"), JStr("0"), JStr("-3"), JStr("5001"),
                   JStr(" 2 rows"), JStr("all")} ]

NextHistory ==
    \/ StorePost
    \/ StoreClock
    \/ StreamPost
    \/ StreamClock
    \/ RequestDone
    \/ \E query \in HistoryQueries, dbUp \in BOOLEAN : GetHistory(query, dbUp)
    \/ \E query \in HourlyQueries, dbUp \in BOOLEAN : GetHourly(query, dbUp)

HistorySpec == Init /\ [][NextHistory]_vars

\* a request to GET /api/history is answered in this step
HistoryAnswered == res'.route = "history" /\ res' # res

\* C24: GET /api/history accepts exactly the presets 60s, 60m, 24h, 7d and
\* day: with any other preset, or none, it answers 400 and runs no query; with
\* preset=day and no date (or an empty one) it answers 400 and runs no query;
\* every other request runs exactly one query, the one of its preset, restricted
\* to the requested device_id, "ESP32_001" when none is given, and leaves the
\* table as it is.
C24_HistoryPresets ==
    [][HistoryAnswered =>
        LET rq == res'.req
            accepted == /\ rq.preset \in {JStr("60s"), JStr("60m"), JStr("24h"), JStr("7d"),
                                          JStr("day")}
                        /\ rq.preset = JStr("day") => rq.date \notin {JUndefined, JStr("")}
        IN  /\ noise_readings' = noise_readings
            /\ IF accepted
               THEN /\ res'.status \in {200, 500}
                    /\ Len(res'.queries) = 1
                    /\ res'.queries[1].sql = rq.preset.s
                    /\ res'.queries[1].device_id =
                           IF rq.device_id \in {JUndefined, JStr("")}
                           THEN JStr("ESP32_001") ELSE rq.device_id
                    /\ res'.status = 200 =>
                           \A i \in 1..Len(res'.body) :
                               \E j \in RowsOf(noise_readings, res'.queries[1].device_id.s) :
                                   DateTrunc(IF rq.preset.s \in {"24h", "day"} THEN SecondsPerHour
                                             ELSE IF rq.preset.s = "60m" THEN SecondsPerMinute
                                             ELSE IF rq.preset.s = "7d" THEN SecondsPerDay
                                             ELSE 1, noise_readings[j].timestamp)
                                       = res'.body[i].timestamp
               ELSE /\ res'.status = 400
                    /\ res'.queries = <<>>]_vars

\* a day's history of the second device, with rows of both devices in the table
C24_Witness ==
    /\ res.route = "history" /\ res.status = 200
    /\ res.req.preset = JStr("day") /\ res.req.date = JStr("1970-01-02")
    /\ res.req.device_id = JStr("ESP32_002")
    /\ Len(res.body) = 1 /\ res.body[1].timestamp = DateTrunc(SecondsPerHour, 86500)
    /\ Len(noise_readings) = 2
    /\ noise_readings[1].device_id = "ESP32_001" /\ noise_readings[1].timestamp = 86500

\* a request to GET /api/history or GET /api/hourly is answered 200 in this step
ListAnswered == res'.route \in {"history", "hourly"} /\ res' # res /\ res'.status = 200

\* oldest to newest by timestamp
Ascending(body) ==
    \A i, j \in 1..Len(body) : i < j => body[i].timestamp <= body[j].timestamp

\* body holds the n most recent of the candidates cand (a function from the
\* positions of rows to what a response shows of them), all of them when they
\* are fewer than n
MostRecentOf(body, cand, n) ==
    /\ Len(body) = Min(n, Cardinality(DOMAIN cand))
    /\ \A k \in 1..Len(body) :
           Cardinality({ i \in 1..Len(body) : body[i] = body[k] })
               <= Cardinality({ j \in DOMAIN cand : cand[j] = body[k] })
    /\ body # <<>> =>
           Cardinality({ j \in DOMAIN cand : cand[j].timestamp > body[1].timestamp })
               = Cardinality({ i \in 1..Len(body) : body[i].timestamp > body[1].timestamp })

\* the limit a limit text of the model asks for
RequestedLimit(v) ==
    IF v = JStr("1") THEN 1 ELSE IF v \in {JStr("2"), JStr(" 2 rows")} THEN 2 ELSE 60

\* the rows of one device, as /api/hourly and the 60s preset show them
DeviceRows(table, dev) == [ j \in RowsOf(table, dev) |-> table[j] ]
DevicePoints(table, dev) == [ j \in RowsOf(table, dev) |-> AsPoint(table[j]) ]

\* C25 as stated: every 200 response of /api/history and /api/hourly is in
\* ascending order of timestamp, and for preset=60s and for /api/hourly its
\* rows are the most recent 60 (N) readings of one device.
C25_RecentRowsOfTheDevice ==
    [][ListAnswered =>
        /\ Ascending(res'.body)
        /\ (res'.route = "history" /\ res'.req.preset = JStr("60s")) =>
               MostRecentOf(res'.body,
                            DevicePoints(noise_readings, res'.queries[1].device_id.s), 60)
        /\ res'.route = "hourly" =>
               \E dev \in {"ESP32_001", "ESP32_002"} :
                   MostRecentOf(res'.body, DeviceRows(noise_readings, dev),
                                RequestedLimit(res'.req.limit))]_vars

\* C25, amended: every 200 response of /api/history and /api/hourly is in
\* ascending order of timestamp; for preset=60s its rows are the most recent 60
\* readings of the requested device ("ESP32_001" by default); for /api/hourly
\* they are the most recent N readings of the requested device, and the most
\* recent N readings of all devices together when the request names no device
\* (no device_id, or an empty one).
C25_RecentRowsAscending ==
    [][ListAnswered =>
        /\ Ascending(res'.body)
        /\ (res'.route = "history" /\ res'.req.preset = JStr("60s")) =>
               MostRecentOf(res'.body,
                            DevicePoints(noise_readings, res'.queries[1].device_id.s), 60)
        /\ res'.route = "hourly" =>
               MostRecentOf(res'.body,
                            IF res'.req.device_id \in {JUndefined, JStr("")}
                            THEN [ j \in 1..Len(noise_readings) |-> noise_readings[j] ]
                            ELSE DeviceRows(noise_readings, res'.req.device_id.s),
                            RequestedLimit(res'.req.limit))]_vars

\* the 60s preset over a table with more than 60 readings of the device
C25_Witness ==
    /\ res.route = "history" /\ res.status = 200 /\ res.req.preset = JStr("60s")
    /\ Cardinality(RowsOf(noise_readings, "ESP32_001")) > 60
    /\ Len(res.body) = 60
    /\ res.body[1].timestamp > noise_readings[1].timestamp
    /\ res.body[60].timestamp = noise_readings[Len(noise_readings)].timestamp

(***************************************************************************)
(* The wrap of millis().  After 2^32 ms (49.7 days) millis() starts again  *)
(* at 0.  The device is taken up shortly before that instant, at the end   *)
(* of an iteration of loop() that closed a window and refreshed the        *)
(* display; the history variables count from there.  Times are kept as     *)
(* described with U32Sub: an instant k ms before the wrap is -k, an        *)
(* instant k ms after it is k, so the difference of two instants of this   *)
(* specification, taken in the integers, is the time that went by between  *)
(* them.                                                                   *)
(***************************************************************************)
\* millis() where the device is taken up
WrapStarts == {-1060, -500, -60}

\* how long an iteration of loop() takes here
WrapTimes == {60, 500}

InitNearWrap ==
    /\ clock \in WrapStarts
    /\ lpc = "read"
    /\ now = clock
    /\ dBA_1s = NoReading
    /\ hpf = [y |-> 0, x_prev |-> 0]
    /\ sumsq_1s = 0
    /\ samples_1s = 0
    /\ t1_start_ms = clock
    /\ currentDb = INITIAL_DB
    /\ ringBuf = [i \in 0..(SCREEN_WIDTH - 1) |-> INITIAL_DB]
    /\ head = 0
    /\ lastDisplayMs = clock
    /\ rx_buf = <<>>
    /\ label = "none"
    /\ prevY = 0
    /\ sendQueue = <<>>
    /\ spc = "wait"
    /\ dba = NoReading
    /\ backoffMs = BACKOFF_BASE
    /\ sleepMs = 0
    /\ reads = 0
    /\ lastRead = "none"
    /\ refreshes = 0
    /\ produced = 0
    /\ lastEnq = 0
    /\ lastEvict = NoEvict
    /\ senderTook = FALSE
    /\ newestAtTake = 0
    /\ lastAttempt = 0
    /\ lastPost = NoPost
    /\ failStreak = 0
    /\ brokenStreak = 0
    /\ windowBlocks = <<>>
    /\ pushLog = <<>>
    /\ drained = FALSE
    /\ nonEmptyAtDrain = FALSE
    /\ noise_readings = <<>>
    /\ dbNow = 0
    /\ res = NoResponse
    /\ hour = NotMounted
    /\ isNight = FALSE
    /\ status = NoStatus
    /\ selectedDeviceId = ""
    /\ live = <<>>
    /\ liveStatus = "idle"
    /\ liveFetches = <<>>
    /\ liveLog = <<>>
    /\ liveEffectFor = ""
    /\ dashPreset = "60m"
    /\ selectedDate = "1970-01-01"
    /\ history = NoHistory
    /\ historyFetches = <<>>
    /\ historyEffectFor = [device_id |-> "", preset |-> "60m", date |-> "1970-01-01"]

WrapLoopRead == \E r \in OnlineReads, dt \in WrapTimes : LoopRead(r, dt)

NextWrap ==
    \/ WrapLoopRead
    \/ LoopSend1

WrapSpec == InitNearWrap /\ [][NextWrap]_vars

\* the time gone by from the instant a to the instant b of WrapSpec
TrueElapsed(a, b) == b - a

\* C31: across the wrap of millis() an iteration of loop() that processed a block
\* closes the window exactly when 1000 ms or more have gone by since the window
\* was opened, and otherwise refreshes the display exactly when 120 ms or more
\* have gone by since the last refresh; the display update at the end of a
\* window boundary follows the same test; a window or a refresh begun before
\* the wrap fires neither early nor late after it.
C31_ElapsedTestsAcrossWrap ==
    [][/\ BlockStep =>
            /\ lpc' = "send1" <=> TrueElapsed(t1_start_ms, clock') >= 1000
            /\ lpc' = "read" =>
                   (refreshes' = refreshes + 1 <=> TrueElapsed(lastDisplayMs, clock') >= 120)
            /\ refreshes' \in {refreshes, refreshes + 1}
       /\ BoundaryDone =>
            /\ t1_start_ms' = now
            /\ refreshes' = refreshes + 1 <=> TrueElapsed(lastDisplayMs, now) >= 120
            /\ refreshes' \in {refreshes, refreshes + 1}
       /\ refreshes' # refreshes => lastDisplayMs' = now'
      ]_vars

\* a window opened 500 ms before the wrap was not closed at the wrap, where the
\* display was refreshed, and has fired 500 ms after it
C31_Witness ==
    /\ lpc = "send1" /\ produced = 1
    /\ t1_start_ms = -500 /\ now = 500
    /\ lastDisplayMs = 0 /\ refreshes = 1 /\ reads = 2

\* C32: a display refresh pushes exactly one value into the ring buffer, at the
\* write cursor, and moves the cursor on by one modulo 128; the value is
\* currentDb, the level of the block read in the same iteration of loop() (no
\* read and no time lies between that block and a refresh made at the end of a
\* window boundary); a refresh comes 120 ms or more after the one before; an
\* iteration that does not refresh, a failed read included, leaves the ring
\* buffer and the cursor as they are.
C32_RefreshPushesOnce ==
    [][/\ refreshes' # refreshes =>
            /\ refreshes' = refreshes + 1
            /\ BlockStep \/ BoundaryDone
            /\ ringBuf' = [ringBuf EXCEPT ![head] = currentDb']
            /\ \A i \in 0..(GRAPH_W - 1) : i # head => ringBuf'[i] = ringBuf[i]
            /\ head' = (head + 1) % 128
            /\ pushLog' = Append(pushLog, currentDb')
            /\ lastRead' = "block" /\ now' = clock'
            /\ BoundaryDone => UNCHANGED <<currentDb, rx_buf, reads, clock, now>>
            /\ lastDisplayMs' = now'
            /\ now' - lastDisplayMs >= 120
       /\ (refreshes' = refreshes /\ lpc # "setup") =>
            UNCHANGED <<ringBuf, head, lastDisplayMs, pushLog, label>>
       /\ (lpc = "read" /\ lpc' = "send1") => (BlockStep /\ now' = clock')
      ]_vars

\* four blocks, three refreshes (one iteration came too early for one), the last
\* refresh at the end of a window boundary
C32_Witness ==
    /\ refreshes = 3 /\ head = 3 /\ Len(pushLog) = 3
    /\ produced = 1 /\ lastEnq = 1 /\ lpc = "read"
    /\ reads = 4 /\ lastRead = "block"
    /\ lastDisplayMs = now
    /\ ringBuf[2] = currentDb /\ ringBuf[0] # ringBuf[1]

(***************************************************************************)
(* The graph: refreshes with levels below, inside and above the range of   *)
(* the graph, in any order.                                                *)
(***************************************************************************)
\* refreshes explored
MaxGraphPushes == 3

\* points in the live buffer and calls of fetchLive that await their answer,
\* together, before the interval is held back
MaxLive == 2

\* points accepted in the long run of the live buffer
MaxLiveLog == 22

\* calls of fetchHistory that await their answer at a time
MaxHistoryFetches == 2

\* the levels shown: the floor of convertToDecibels, the ends of the range and their
\* neighbours, the levels between which the row changes, and a level far above
GraphLevels == {-144, 0, 19, 20, 21, 22, 49, 50, 55, 78, 79, 80, 81, 200}

GraphRefresh ==
    \E v \in GraphLevels :
        /\ Len(pushLog) < MaxGraphPushes
        /\ DisplayRefresh(v)

NextGraph ==
    \/ \E dt \in SetupTimes : Setup(TRUE, dt)
    \/ GraphRefresh

GraphSpec == Init /\ [][NextGraph]_vars

\* C33: the graph row computed for any level, below 20 and above 80 included,
\* lies in the graph area, 22 <= y <= 63; levels of 20 dB and less get the
\* bottom row 63, levels of 80 dB and more the top row 22; and of two levels
\* drawn one after the other the larger is never drawn lower on the screen
\* (never in a row of larger y).
C33_GraphRowInsideArea ==
    [][refreshes' # refreshes =>
        LET v == pushLog'[Len(pushLog')]
        IN  /\ v = currentDb'
            /\ GRAPH_Y <= prevY' /\ prevY' <= GRAPH_Y + GRAPH_H - 1
            /\ 22 <= prevY' /\ prevY' <= 63
            /\ v <= 20 => prevY' = 63
            /\ v >= 80 => prevY' = 22
            /\ (20 < v /\ v < 80) => 60 * (63 - prevY') <= 41 * (v - 20)
            /\ (20 < v /\ v < 80) => 41 * (v - 20) < 60 * (63 - prevY' + 1)
            /\ pushLog # <<>> =>
                  /\ v >= pushLog[Len(pushLog)] => prevY' <= prevY
                  /\ v <= pushLog[Len(pushLog)] => prevY' >= prevY]_vars

\* a level far below the range, one inside it and one far above it were drawn
C33_Witness ==
    /\ pushLog = <<-144, 50, 200>>
    /\ prevY = 22 /\ currentDb = 200
    /\ ringBuf[0] = -144 /\ ringBuf[1] = 50 /\ head = 3


(***************************************************************************)
(* The dashboard's live buffer (Dashboard.tsx, the effect on                *)
(* selectedDeviceId).  A call of fetchLive is asynchronous: it sends its    *)
(* request for the device selected when its effect ran, and the rest of it  *)
(* runs when the answer arrives, whatever has happened in between.          *)
(* Date.now() is the clock dbNow in milliseconds.                           *)
(***************************************************************************)

LIVE_POINTS == 20
MAX_AGE_MS == 30000
MsPerSecond == 1000

DateNow == dbNow * MsPerSecond

\* the devices of the select box
DeviceIds == {"ESP32_001", "ESP32_002"}

\* JSON: the text toISOString gives for the instant ms
JDate(ms) == [t |-> "string", n |-> ms, s |-> "iso"]

\* new Date(text): the instant a date text names, when it names one
DateParse(v) == IF v.t = "string" /\ v.s = "iso" THEN Finite(v.n) ELSE NaN

\* the hundredths the first two decimals of a text are worth
FractionHundredths(txt) ==
    IF txt = "" \/ ~IsDigit(Head(txt)) THEN 0
    ELSE 10 * DigitValue(Head(txt))
         + (IF Tail(txt) = "" \/ ~IsDigit(Head(Tail(txt))) THEN 0
            ELSE DigitValue(Head(Tail(txt))))

RECURSIVE SkipDigits(_)
SkipDigits(txt) == IF txt = "" \/ ~IsDigit(Head(txt)) THEN txt ELSE SkipDigits(Tail(txt))

\* Number.parseFloat(value) in hundredths: the value is made a text (a number
\* gives its own digits back); leading blanks, a sign, digits, then a point and
\* digits; NaN when no digit begins the number
parseFloat(v) ==
    IF v.t = "number" THEN Finite(v.n)
    ELSE IF v.t # "string" THEN NaN
    ELSE LET t0   == TrimStart(v.s)
             neg  == t0 # "" /\ Head(t0) = "-"
             t1   == IF t0 # "" /\ Head(t0) \in {"-", "+"} THEN Tail(t0) ELSE t0
             rest == SkipDigits(t1)
             frac == IF rest # "" /\ Head(rest) = "." THEN Tail(rest) ELSE ""
             some == (t1 # "" /\ IsDigit(Head(t1))) \/ (frac # "" /\ IsDigit(Head(frac)))
             mag  == Centi * LeadingDigits(t1, 0) + FractionHundredths(frac)
         IN  IF ~some THEN NaN ELSE Finite(IF neg THEN 0 - mag ELSE mag)

\* prev.slice(start): from start, counted from the end when negative
slice(prev, start) ==
    LET from == IF start < 0 THEN Max(Len(prev) + start, 0) ELSE Min(start, Len(prev))
    IN  SubSeq(prev, from + 1, Len(prev))

\* (a buffer that dropped nothing)
appendLivePointKeepAll(prev, p) == Append(prev, p)

\* [...prev.slice(-(LIVE_POINTS - 1)), { t: now, dba }]
appendLivePoint(prev, p) == Append(slice(prev, 0 - (LIVE_POINTS - 1)), p)

\* res.ok
ResOk(answer) == 200 <= answer.status /\ answer.status <= 299

\* fetch and res.json() threw, res.ok was false, or toISOString threw
LiveThrows(answer) ==
    \/ ~ResOk(answer)
    \/ answer.body = <<>>
    \/ (~Falsy(answer.body[1].timestamp) /\ ~DateParse(answer.body[1].timestamp).finite)

\* (a check that let a reading of any age through)
LiveTooOldNever(data, nowMs) == FALSE

\* if (ts) { const ageMs = Date.now() - new Date(ts).getTime(); if (ageMs > 30_000)
LiveTooOld(data, nowMs) ==
    /\ ~Falsy(data.timestamp)
    /\ nowMs - DateParse(data.timestamp).n > MAX_AGE_MS

\* (a check that took every finite number)
LiveNoDataNotFinite(data) == ~parseFloat(data.dba_instant).finite

\* if (!Number.isFinite(dba) || (dba === 0 && !data?.timestamp))
LiveNoData(data) ==
    LET level == parseFloat(data.dba_instant)
    IN  ~level.finite \/ (level.n = 0 /\ Falsy(data.timestamp))

\* fetchLive after its await: the buffer and the status kind it leaves; the
\* point carries the device its request named
fetchLiveThen(prev, answer, nowMs, dev) ==
    IF LiveThrows(answer)
    THEN [live |-> prev, kind |-> "unavailable", appended |-> FALSE]
    ELSE LET data == answer.body[1]
         IN  IF LiveNoData(data) \/ LiveTooOld(data, nowMs)
             THEN [live |-> prev, kind |-> "unavailable", appended |-> FALSE]
             ELSE [live |-> appendLivePoint(prev, [t |-> nowMs,
                                                   dba |-> parseFloat(data.dba_instant).n,
                                                   of |-> dev]),
                   kind |-> "ok", appended |-> TRUE]

RemoveAt(s, i) == SubSeq(s, 1, i - 1) \o SubSeq(s, i + 1, Len(s))


\* setSelectedDeviceId(d): the select box, or fetchDevices taking the first device
DashSelectDevice(d) ==
    /\ d # selectedDeviceId
    /\ selectedDeviceId' = d
    /\ UNCHANGED <<live, liveStatus, liveFetches, liveLog, liveEffectFor>>
    /\ UNCHANGED <<nightVars, historyVars, backendVars, firmwareVars>>

\* useEffect(..., [selectedDeviceId]) after selectedDeviceId has changed: the
\* cleanup clears the interval, then the effect empties the buffer, sets
\* loading, calls fetchLive() and starts the interval of the new device
DashLiveEffect ==
    /\ liveEffectFor # selectedDeviceId
    /\ selectedDeviceId # ""
    /\ Len(liveFetches) < MaxLive
    /\ live' = <<>>
    /\ liveStatus' = "loading"
    /\ liveLog' = <<>>
    /\ liveEffectFor' = selectedDeviceId
    /\ liveFetches' = Append(liveFetches, selectedDeviceId)
    /\ UNCHANGED <<selectedDeviceId, nightVars, historyVars, backendVars, firmwareVars>>

\* setInterval(fetchLive, 1000): fetchLive sends its request for the device of
\* its effect
DashLiveTick ==
    /\ liveEffectFor # ""
    /\ Len(liveFetches) < MaxLive
    /\ liveFetches' = Append(liveFetches, liveEffectFor)
    /\ UNCHANGED <<selectedDeviceId, live, liveStatus, liveLog, liveEffectFor>>
    /\ UNCHANGED <<nightVars, historyVars, backendVars, firmwareVars>>

\* the i-th waiting call of fetchLive resumes with its answer
LiveAnswerArrives(i, answer) ==
    /\ i \in 1..Len(liveFetches)
    /\ LET r == fetchLiveThen(live, answer, DateNow, liveFetches[i])
       IN  /\ live' = r.live
           /\ liveStatus' = r.kind
           /\ liveLog' = IF r.appended THEN Append(liveLog, r.live[Len(r.live)]) ELSE liveLog
    /\ liveFetches' = RemoveAt(liveFetches, i)
    /\ UNCHANGED <<selectedDeviceId, liveEffectFor>>

\* the answer to the i-th waiting call of fetchLive arrives
DashLiveAnswer(i, answer) ==
    /\ LiveAnswerArrives(i, answer)
    /\ UNCHANGED <<nightVars, historyVars, backendVars, firmwareVars>>

\* { error: "Database error" }
ErrorBody == [dba_instant |-> JUndefined, timestamp |-> JUndefined]

\* what a request to /api/live may bring back at the time nowMs: no answer
\* (status 0), an error status, a body that is no JSON, and objects
LiveAnswers(nowMs) ==
    { [status |-> 0, body |-> <<>>], [status |-> 500, body |-> <<ErrorBody>>],
      [status |-> 200, body |-> <<>>] }
    \cup
    { [status |-> 200, body |-> << [dba_instant |-> d, timestamp |-> ts] >>] :
        d \in {JStr("56.35"), JNum(0), JStr("0.00"), JStr("loud"), JNull},
        ts \in {JUndefined, JDate(nowMs), JDate(nowMs - MAX_AGE_MS),
                JDate(nowMs - MAX_AGE_MS - 1), JStr("soon")} }

\* the times of the dashboard's clock after 0, in seconds
DashTimes == {40}

DashLiveBounded == Len(live) + Len(liveFetches) < MaxLive

NextDashLive ==
    \/ \E d \in DeviceIds : DashSelectDevice(d)
    \/ DashLiveEffect
    \/ DashLiveBounded /\ DashLiveTick
    \/ \E i \in 1..MaxLive : \E answer \in LiveAnswers(DateNow) : DashLiveAnswer(i, answer)
    \/ \E t \in DashTimes : DbClockAdvances(t)

DashLiveSpec == Init /\ [][NextDashLive]_vars


(***************************************************************************)
(* The live buffer over a long run: one device is selected, the clock       *)
(* advances a second after each appended point, one request waits at a     *)
(* time, and it finds either no answer or a fresh reading.                  *)
(***************************************************************************)

BufferAnswers(nowMs) ==
    { [status |-> 0, body |-> <<>>],
      [status |-> 200, body |-> << [dba_instant |-> JStr("56.35"), timestamp |-> JDate(nowMs)] >>] }

BufferSelect ==
    \E d \in DeviceIds :
        /\ selectedDeviceId = ""
        /\ DashSelectDevice(d)

BufferTick ==
    /\ Len(liveLog) < MaxLiveLog
    /\ liveLog # <<>> => liveLog[Len(liveLog)].t < DateNow
    /\ liveFetches = <<>>
    /\ DashLiveTick

BufferClock ==
    /\ liveLog # <<>>
    /\ liveLog[Len(liveLog)].t = DateNow
    /\ liveFetches = <<>>
    /\ DbClockAdvances(dbNow + 1)

NextLiveBuffer ==
    \/ BufferSelect
    \/ DashLiveEffect
    \/ BufferTick
    \/ BufferClock
    \/ \E i \in 1..MaxLive : \E answer \in BufferAnswers(DateNow) : DashLiveAnswer(i, answer)

LiveBufferSpec == Init /\ [][NextLiveBuffer]_vars

\* C34: the live buffer never holds more than 20 points; it holds the most
\* recent min(n, 20) of the n points accepted since it was emptied, in the order
\* of their arrival, the oldest dropped first
C34_LiveBufferKeepsLast20 ==
    /\ Len(live) <= 20
    /\ Len(live) = Min(Len(liveLog), 20)
    /\ \A k \in 1..Len(live) : live[k] = liveLog[Len(liveLog) - Len(live) + k]

\* 22 points were accepted, one a second from 0 s on: the buffer holds the 20 of
\* the seconds 2 to 21
C34_Witness ==
    /\ Len(liveLog) = 22
    /\ Len(live) = 20
    /\ live[1].t = 2000
    /\ live[20].t = 21000
    /\ liveStatus = "ok"


\* the failures a live fetch may meet: no answer or a status outside 2xx, a
\* dba_instant that is no number, a 0 without a timestamp, a reading older than
\* 30 seconds
LiveFetchFails(answer) == answer.status = 0 \/ answer.status < 200 \/ answer.status > 299
LiveNotNumeric(answer) ==
    /\ answer.body # <<>>
    /\ answer.body[1].dba_instant \in {JStr("loud"), JNull, JUndefined}
LiveZeroWithoutTimestamp(answer) ==
    /\ answer.body # <<>>
    /\ answer.body[1].dba_instant \in {JNum(0), JStr("0.00")}
    /\ answer.body[1].timestamp = JUndefined
LiveOlderThan30s(answer) ==
    /\ answer.body # <<>>
    /\ \E age \in {MAX_AGE_MS + 1} : answer.body[1].timestamp = JDate(DateNow - age)
LiveRejected(answer) ==
    \/ LiveFetchFails(answer)
    \/ LiveNotNumeric(answer)
    \/ LiveZeroWithoutTimestamp(answer)
    \/ LiveOlderThan30s(answer)

\* C35: a live fetch that fails, brings a dba_instant that is no number, brings 0
\* without a timestamp or brings a reading older than 30 seconds leaves the
\* buffer as it is and sets the status to unavailable; a fetch that appends a
\* point has passed all these checks, and it sets the status to ok
C35_OnlyCheckedAnswersAppend ==
    [][\A i \in 1..Len(liveFetches) : \A answer \in LiveAnswers(DateNow) :
         (liveFetches' = RemoveAt(liveFetches, i) /\ DashLiveAnswer(i, answer)) =>
            /\ LiveRejected(answer) => live' = live /\ liveStatus' = "unavailable"
            /\ live' # live =>
                  /\ ~LiveRejected(answer)
                  /\ liveStatus' = "ok"
                  /\ live' = Append(live, [t |-> DateNow,
                                           dba |-> IF answer.body[1].dba_instant = JStr("56.35")
                                                   THEN 5635 ELSE 0,
                                           of |-> liveFetches[i]])]_vars

\* a reading was appended at 0 s, and a later fetch of the same device was
\* turned down: the buffer still holds the one point, the status is unavailable
C35_Witness ==
    /\ live = << [t |-> 0, dba |-> 5635, of |-> "ESP32_001"] >>
    /\ liveStatus = "unavailable"
    /\ liveFetches = <<>>
    /\ selectedDeviceId = "ESP32_001"
    /\ liveEffectFor = "ESP32_001"
    /\ dbNow = 40


\* the answer that arrives in this step belongs to a call of fetchLive for
\* another device than the selected one, whose effect has run
StaleLiveAnswerArrives ==
    /\ liveEffectFor = selectedDeviceId
    /\ \E i \in 1..Len(liveFetches) :
          /\ liveFetches[i] # selectedDeviceId
          /\ liveFetches' = RemoveAt(liveFetches, i)

\* C36: when the selected device has changed, the effect empties the buffer, and
\* from then on the buffer holds only points fetched for the selected device: the
\* answer to a fetch for the previous device appends no point and leaves the
\* live status as it is
C36_StaleLiveFetchIgnored ==
    [][/\ (liveEffectFor' # liveEffectFor) => live' = <<>>
       /\ StaleLiveAnswerArrives => live' = live /\ liveStatus' = liveStatus
       /\ (liveEffectFor' = selectedDeviceId') =>
              \A k \in 1..Len(live') : live'[k].of = selectedDeviceId']_vars


(***************************************************************************)
(* The dashboard's history (Dashboard.tsx, the effect on preset,            *)
(* selectedDate and selectedDeviceId).  fetchHistory is asynchronous as     *)
(* fetchLive is; the history is kept with the selection whose request       *)
(* brought it.                                                              *)
(***************************************************************************)

\* the presets and dates chosen
DashPresets == {"60m", "day"}
DashDates == {"1970-01-01", "1970-01-02"}

\* preset, selectedDate, selectedDeviceId as a render sees them
Selection == [device_id |-> selectedDeviceId, preset |-> dashPreset, date |-> selectedDate]

\* setPreset(e.target.value as Preset)
DashSelectPreset(p) ==
    /\ p # dashPreset
    /\ dashPreset' = p
    /\ UNCHANGED <<selectedDate, history, historyFetches, historyEffectFor>>
    /\ UNCHANGED <<nightVars, liveVars, backendVars, firmwareVars>>

\* setSelectedDate(e.target.value)
DashSelectDate(d) ==
    /\ d # selectedDate
    /\ selectedDate' = d
    /\ UNCHANGED <<dashPreset, history, historyFetches, historyEffectFor>>
    /\ UNCHANGED <<nightVars, liveVars, backendVars, firmwareVars>>

\* useEffect(..., [preset, selectedDate, selectedDeviceId]) after one of them has
\* changed: the cleanup clears the interval; with a device selected the effect
\* calls fetchHistory() and starts the interval
DashHistoryEffect ==
    /\ historyEffectFor # Selection
    /\ Len(historyFetches) < MaxHistoryFetches
    /\ historyEffectFor' = Selection
    /\ historyFetches' = IF selectedDeviceId = "" THEN historyFetches
                         ELSE Append(historyFetches, Selection)
    /\ UNCHANGED <<dashPreset, selectedDate, history>>
    /\ UNCHANGED <<nightVars, liveVars, backendVars, firmwareVars>>

\* setInterval(fetchHistory, refreshMs): fetchHistory sends the request of the
\* selection of its effect
DashHistoryTick ==
    /\ historyEffectFor.device_id # ""
    /\ Len(historyFetches) < MaxHistoryFetches
    /\ historyFetches' = Append(historyFetches, historyEffectFor)
    /\ UNCHANGED <<dashPreset, selectedDate, history, historyEffectFor>>
    /\ UNCHANGED <<nightVars, liveVars, backendVars, firmwareVars>>

\* fetchHistory after its await: setHistory(data), or setHistory([]) in catch
fetchHistoryThen(answer, sel) ==
    IF ~ResOk(answer) \/ answer.body = <<>>
    THEN [rows |-> <<>>, of |-> sel]
    ELSE [rows |-> answer.body[1], of |-> sel]

\* the answer to the i-th waiting call of fetchHistory arrives
DashHistoryAnswer(i, answer) ==
    /\ i \in 1..Len(historyFetches)
    /\ history' = fetchHistoryThen(answer, historyFetches[i])
    /\ historyFetches' = RemoveAt(historyFetches, i)
    /\ UNCHANGED <<dashPreset, selectedDate, historyEffectFor>>
    /\ UNCHANGED <<nightVars, liveVars, backendVars, firmwareVars>>

\* what a request to /api/history may bring back: no answer, an error status,
\* a body that is no JSON, no rows, one row
HistoryAnswers ==
    { [status |-> 0, body |-> <<>>], [status |-> 500, body |-> << <<>> >>],
      [status |-> 200, body |-> <<>>], [status |-> 200, body |-> << <<>> >>],
      [status |-> 200, body |-> << << [timestamp |-> 0, dba |-> 5635] >> >>] }

NextDashHistory ==
    \/ \E d \in DeviceIds : DashSelectDevice(d)
    \/ \E p \in DashPresets : DashSelectPreset(p)
    \/ \E d \in DashDates : DashSelectDate(d)
    \/ DashHistoryEffect
    \/ DashHistoryTick
    \/ \E i \in 1..MaxHistoryFetches : \E answer \in HistoryAnswers : DashHistoryAnswer(i, answer)

DashHistorySpec == Init /\ [][NextDashHistory]_vars

\* the answer that arrives in this step belongs to a call of fetchHistory for
\* another selection than the one whose history is shown, the latest
StaleHistoryAnswerArrives ==
    /\ historyEffectFor = Selection
    /\ history.of = Selection
    /\ \E i \in 1..Len(historyFetches) :
          /\ historyFetches[i] # Selection
          /\ historyFetches' = RemoveAt(historyFetches, i)
          /\ \A j \in 1..Len(historyFetches) :
                historyFetches[j] = Selection => historyFetches' # RemoveAt(historyFetches, j)

\* C37: the history shown belongs to the latest selection of device, preset and
\* date: once the answer for the latest selection is shown, the answer to a
\* request of a superseded selection does not overwrite it; and a fetch of the
\* selection in force that fails sets the history to empty
C37_StaleHistoryNeverOverwrites ==
    [][/\ StaleHistoryAnswerArrives => history' = history
       /\ \A i \in 1..Len(historyFetches) : \A answer \in HistoryAnswers :
             (/\ historyFetches[i] = historyEffectFor
              /\ DashHistoryAnswer(i, answer)
              /\ (answer.status # 200 \/ answer.body = <<>>))
                => history'.rows = <<>>]_vars


(***************************************************************************)
(* GET /api/live (server.js) and the dashboard that asks it: readings are   *)
(* posted, a waiting call of fetchLive is answered by the route, and the    *)
(* answer is delivered to the call.                                         *)
(***************************************************************************)

DigitText(d) ==
    CASE d = 0 -> "0" [] d = 1 -> "1" [] d = 2 -> "2" [] d = 3 -> "3" [] d = 4 -> "4"
      [] d = 5 -> "5" [] d = 6 -> "6" [] d = 7 -> "7" [] d = 8 -> "8" [] d = 9 -> "9"

RECURSIVE NatText(_)
NatText(n) == IF n < 10 THEN DigitText(n) ELSE NatText(n \div 10) \o DigitText(n % 10)

\* the text the pg driver gives for a DECIMAL(5,2) of n hundredths
DecimalText(n) ==
    LET mag == IF n < 0 THEN 0 - n ELSE n
    IN  (IF n < 0 THEN "-" ELSE "") \o NatText(mag \div Centi) \o "."
        \o DigitText((mag % Centi) \div 10) \o DigitText(mag % 10)

\* res.json(result.rows[0]): the fields of the row the dashboard reads
LiveRowJson(row) ==
    [dba_instant |-> JStr(DecimalText(row.dba_instant)),
     timestamp |-> JDate(row.timestamp * MsPerSecond)]

\* res.json({ dba_instant: 0 })
LiveZeroJson == [dba_instant |-> JNum(0), timestamp |-> JUndefined]

\* the positions the query of /api/live selects from: the rows of the device,
\* or every row when the request names no device
LiveRows(table, device_id) ==
    IF Falsy(device_id) THEN 1..Len(table) ELSE RowsOf(table, PgText(device_id))

\* if (result.rows.length === 0) return res.json({ dba_instant: 0 })
LiveNoRows == << LiveZeroJson >>

\* app.get("/api/live"): WHERE nr.device_id = $1 if (device_id), ORDER BY
\* nr.timestamp DESC LIMIT 1
GetLive(query, dbUp) ==
    LET q == [sql |-> "live", device_id |-> query.device_id]
        answer(st, b) == [route |-> "live", req |-> query, status |-> st,
                          body |-> b, queries |-> <<q>>]
    IN  /\ res = NoResponse
        /\ IF dbUp
           THEN \E s \in OrderByTimestampDesc(noise_readings,
                                              LiveRows(noise_readings, query.device_id)) :
                    res' = answer(200, IF Limit(s, 1) = <<>> THEN LiveNoRows
                                       ELSE << LiveRowJson(s[1]) >>)
           ELSE res' = answer(500, << ErrorBody >>)
        /\ UNCHANGED <<noise_readings, dbNow, dashboardVars, firmwareVars>>

\* a reading of the second sensor is posted
LiveRoutePost ==
    \E v \in {JNum(0), JNum(5635)} :
        /\ Len(noise_readings) < MaxRows
        /\ PostNoiseData([dba_instant |-> v, device_id |-> JStr("ESP32_002")], TRUE)

\* the request of a waiting call of fetchLive reaches the route
LiveRouteAsked ==
    \E i \in 1..Len(liveFetches), dbUp \in BOOLEAN :
        GetLive([device_id |-> JStr(liveFetches[i])], dbUp)

\* a request to the route from elsewhere, with no device_id or an empty one
LiveRouteAskedByOthers ==
    \E d \in {JUndefined, JStr("")} : GetLive([device_id |-> d], TRUE)

\* the answer of the route is delivered to the call that asked
LiveRouteDelivers ==
    \E i \in 1..Len(liveFetches) :
        /\ res.route = "live"
        /\ res.req.device_id = JStr(liveFetches[i])
        /\ LiveAnswerArrives(i, [status |-> res.status, body |-> res.body])
        /\ res' = NoResponse
        /\ UNCHANGED <<noise_readings, dbNow, nightVars, historyVars, firmwareVars>>

\* the interval, one call waiting at a time
LiveRouteTick ==
    /\ liveFetches = <<>>
    /\ DashLiveBounded
    /\ DashLiveTick

NextLiveRoute ==
    \/ LiveRoutePost
    \/ RequestDone
    \/ \E t \in DashTimes : DbClockAdvances(t)
    \/ \E d \in DeviceIds : DashSelectDevice(d)
    \/ DashLiveEffect
    \/ LiveRouteTick
    \/ LiveRouteAsked
    \/ LiveRouteAskedByOthers
    \/ LiveRouteDelivers

LiveRouteSpec == Init /\ [][NextLiveRoute]_vars


\* the route answers a request in this step
LiveAnswered == res = NoResponse /\ res'.route = "live"

\* the table holds no reading of the device a request names (no reading at
\* all, when it names none)
NoReadingFor(query) ==
    IF query.device_id \in {JUndefined, JStr("")} THEN noise_readings = <<>>
    ELSE \A k \in 1..Len(noise_readings) : noise_readings[k].device_id # query.device_id.s

\* the answer delivered to a call of fetchLive in this step is the one the
\* route gave for a device without a reading
NoReadingDelivered ==
    /\ res.route = "live"
    /\ res.status = 200
    /\ res' = NoResponse
    /\ Len(liveFetches') < Len(liveFetches)
    /\ NoReadingFor(res.req)

\* C38: when the table holds no reading of the requested device, GET /api/live
\* answers 200 with { dba_instant: 0 } and no timestamp (unless the database
\* fails); the dashboard takes that answer as no data, sets the live status to
\* unavailable and appends no point; a point of 0 dB in the buffer is a stored
\* reading of 0 dB of the device asked for
C38_NoReadingIsNoData ==
    [][/\ (LiveAnswered /\ res'.status # 500 /\ NoReadingFor(res'.req))
          => /\ res'.status = 200
             /\ res'.body = << [dba_instant |-> JNum(0), timestamp |-> JUndefined] >>
       /\ NoReadingDelivered => live' = live /\ liveStatus' = "unavailable"
       /\ \A k \in 1..Len(live') :
             live'[k].dba = 0 =>
                \E j \in 1..Len(noise_readings) :
                    /\ noise_readings[j].device_id = live'[k].of
                    /\ noise_readings[j].dba_instant = 0]_vars

\* the first sensor, which has no reading while the second has two, is
\* selected; an earlier answer has left the status unavailable and the buffer
\* empty, and the route has answered the next call with { dba_instant: 0 }
C38_Witness ==
    /\ selectedDeviceId = "ESP32_001"
    /\ liveEffectFor = "ESP32_001"
    /\ liveFetches = <<"ESP32_001">>
    /\ res.route = "live"
    /\ res.status = 200
    /\ res.req.device_id = JStr("ESP32_001")
    /\ res.body = << LiveZeroJson >>
    /\ liveStatus = "unavailable"
    /\ live = <<>>
    /\ Len(noise_readings) = 2
    /\ noise_readings[1].dba_instant = 0
=============================================================================
